---------------------------- MODULE Spec2Model ----------------------------
(***************************************************************************)
(* A model of the simulation core of 3d-fly: the flight dynamics model     *)
(* (FlightModel.update), the arena constraint enforcer, the projectile     *)
(* system (useWeapons) and the dead-reckoning reconciler                   *)
(* (useDeadReckoning).                                                     *)
(*                                                                         *)
(* The program computes with IEEE doubles; the model computes with         *)
(* fixed-point integers.  Units:                                           *)
(*   lengths, positions        centimetres (ECEF axes)                     *)
(*   velocities                cm/s                                        *)
(*   accelerations             cm/s^2                                      *)
(*   times                     milliseconds                                *)
(*   dimensionless values      parts per million (ONE = 1.0): quaternion   *)
(*     and unit-vector components, throttle, correction alpha              *)
(*   angles, angular rates     micro-radians, micro-radians per second     *)
(* Quotients are truncated toward zero and magnitudes (square roots) are   *)
(* rounded up, so a vector rescaled to a length never exceeds that length. *)
(***************************************************************************)
EXTENDS Integers, Sequences, FiniteSets, TLC

ONE == 1000000

(***************************************************************************)
(* Integer helpers (Math.abs, Math.min, Math.max).                         *)
(***************************************************************************)
Abs(a) == IF a < 0 THEN -a ELSE a
Min(a, b) == IF a < b THEN a ELSE b
Max(a, b) == IF a > b THEN a ELSE b

\* A result whose computation starts once an earlier value is known, as in
\* the statement order of a function body.
After(value, result) == <<value, result>>[2]

(***************************************************************************)
(* a * b / d for naturals without leaving 32 bits (d < 2^26):              *)
(* <<quotient, remainder>>, taking b one hexadecimal digit at a time.      *)
(***************************************************************************)
MulDivDigit(h, a, digit, d) ==
  <<16 * h[1] + digit * (a \div d) + ((16 * h[2] + digit * (a % d)) \div d),
    (16 * h[2] + digit * (a % d)) % d>>

RECURSIVE MulDivNat(_, _, _)
MulDivNat(a, b, d) ==
  IF a = 0 \/ b = 0 THEN <<0, 0>>
  ELSE IF a <= 2147483647 \div b THEN <<(a * b) \div d, (a * b) % d>>
  ELSE MulDivDigit(MulDivNat(a, b \div 16, d), a, b % 16, d)

\* <<q, r>> or <<-q, -r>>
Signed(n, negative) == IF negative THEN <<-n[1], -n[2]>> ELSE n

\* a * b = q * d + r with the product's sign on q and r: <<q, r>> (d > 0)
MulDivRem(a, b, d) ==
  Signed(MulDivNat(Max(Abs(a), Abs(b)), Min(Abs(a), Abs(b)), d), (a < 0) # (b < 0))

\* a * b / d truncated toward zero (d > 0)
MulDiv(a, b, d) == MulDivRem(a, b, d)[1]

(***************************************************************************)
(* Wide naturals <<hi, lo>> = hi * 10^6 + lo, for sums of squares.         *)
(***************************************************************************)
WSqParts(h, l) ==
  <<h * h + ((2 * h * l) \div 1000) + ((((2 * h * l) % 1000) * 1000 + l * l) \div ONE),
    (((2 * h * l) % 1000) * 1000 + l * l) % ONE>>

WSq(a) == WSqParts(a \div 1000, a % 1000)

WAdd(p, q) == <<p[1] + q[1] + ((p[2] + q[2]) \div ONE), (p[2] + q[2]) % ONE>>

WLE(p, q) == p[1] < q[1] \/ (p[1] = q[1] /\ p[2] <= q[2])

WLT(p, q) == p[1] < q[1] \/ (p[1] = q[1] /\ p[2] < q[2])

\* The largest hexadecimal digit d with (r + d * scale)^2 <= n, where r^2 <= n.
HexDigit(n, r, scale) ==
  CHOOSE d \in 0..15 :
    /\ WLE(WSq(r + d * scale), n)
    /\ (d = 15 \/ ~WLE(WSq(r + (d + 1) * scale), n))

\* r with the next lower hexadecimal digit of the root of n filled in
WSqrtDigit(n, r, scale) == r + scale * HexDigit(n, r, scale)

\* The largest s with s^2 <= n (n < 2^48), one hexadecimal digit at a time.
WSqrtFloor(n) ==
  WSqrtDigit(n, WSqrtDigit(n, WSqrtDigit(n, WSqrtDigit(n, WSqrtDigit(n,
    WSqrtDigit(n, 0, 1048576), 65536), 4096), 256), 16), 1)

RoundUp(s, n) == s + (IF WSq(s) = n THEN 0 ELSE 1)

\* Math.sqrt, rounded up.
WSqrtUp(n) == After(n, RoundUp(WSqrtFloor(n), n))

(***************************************************************************)
(* Cesium.Cartesian3: vectors are triples <<x, y, z>>.                     *)
(***************************************************************************)
ZERO3 == <<0, 0, 0>>

VAdd(u, v) == <<u[1] + v[1], u[2] + v[2], u[3] + v[3]>>

VSub(u, v) == <<u[1] - v[1], u[2] - v[2], u[3] - v[3]>>

\* multiplyByScalar(v, num / den)
VScale(v, num, den) ==
  After(v, <<MulDiv(v[1], num, den), MulDiv(v[2], num, den), MulDiv(v[3], num, den)>>)

\* |v|^2 as a wide natural
MagSq(v) == WAdd(WAdd(WSq(Abs(v[1])), WSq(Abs(v[2]))), WSq(Abs(v[3])))

\* Cartesian3.magnitude
Magnitude(v) == WSqrtUp(MagSq(v))

\* v / m
Unit(v, m) == IF m = 0 THEN ZERO3 ELSE VScale(v, ONE, m)

\* Cartesian3.normalize: a unit vector in parts per million.  The program
\* yields NaN components for the zero vector; the model keeps it zero.
Normalize(v) == After(v, Unit(v, Magnitude(v)))

\* (q1 + q2 + q3) + (r1 + r2 + r3) / ONE, truncated toward zero
SumTruncated(q, r) ==
  IF q + (r \div ONE) < 0 /\ (r % ONE) > 0 THEN q + (r \div ONE) + 1 ELSE q + (r \div ONE)

SumParts(t1, t2, t3) == SumTruncated(t1[1] + t2[1] + t3[1], t1[2] + t2[2] + t3[2])

\* Cartesian3.dot of a vector with a unit (ppm) vector: the exact sum of the
\* three products, truncated toward zero once.
DotUnit(v, n) ==
  SumParts(MulDivRem(v[1], n[1], ONE), MulDivRem(v[2], n[2], ONE), MulDivRem(v[3], n[3], ONE))

\* Cartesian3.cross of two unit (ppm) vectors
CrossUnit(u, v) ==
  <<MulDiv(u[2], v[3], ONE) - MulDiv(u[3], v[2], ONE),
    MulDiv(u[3], v[1], ONE) - MulDiv(u[1], v[3], ONE),
    MulDiv(u[1], v[2], ONE) - MulDiv(u[2], v[1], ONE)>>

(***************************************************************************)
(* Math.sin and Math.cos of an angle x in micro-radians, |x| <= 1 rad, by  *)
(* their Taylor series; results in parts per million.                      *)
(***************************************************************************)
\* x^(k+2) from x^k and x^2
NextPower(xk, x2) == MulDiv(xk, x2, ONE)

SinTerms(x, x3, x5, x2) == x - (x3 \div 6) + (x5 \div 120) - (NextPower(x5, x2) \div 5040)

SinFrom(x, x3, x2) == SinTerms(x, x3, NextPower(x3, x2), x2)

SinSeries(x, x2) == SinFrom(x, NextPower(x, x2), x2)

Sin(x) == SinSeries(x, MulDiv(x, x, ONE))

CosTerms(x2, x4) == ONE - (x2 \div 2) + (x4 \div 24) - (NextPower(x4, x2) \div 720)

CosSeries(x2) == CosTerms(x2, NextPower(x2, x2))

Cos(x) == CosSeries(MulDiv(x, x, ONE))

(***************************************************************************)
(* Cesium.Quaternion: quadruples <<x, y, z, w>> in parts per million.      *)
(***************************************************************************)
QMagSq(q) == WAdd(WAdd(WSq(Abs(q[1])), WSq(Abs(q[2]))), WAdd(WSq(Abs(q[3])), WSq(Abs(q[4]))))

QUnit(q, m) ==
  IF m = 0 THEN q
  ELSE <<MulDiv(q[1], ONE, m), MulDiv(q[2], ONE, m), MulDiv(q[3], ONE, m), MulDiv(q[4], ONE, m)>>

\* Quaternion.normalize
QNormalize(q) == After(q, QUnit(q, WSqrtUp(QMagSq(q))))

\* Quaternion.multiply(left, right)
QMultiply(l, r) ==
  <<MulDiv(l[4], r[1], ONE) + MulDiv(l[1], r[4], ONE) + MulDiv(l[2], r[3], ONE) - MulDiv(l[3], r[2], ONE),
    MulDiv(l[4], r[2], ONE) - MulDiv(l[1], r[3], ONE) + MulDiv(l[2], r[4], ONE) + MulDiv(l[3], r[1], ONE),
    MulDiv(l[4], r[3], ONE) + MulDiv(l[1], r[2], ONE) - MulDiv(l[2], r[1], ONE) + MulDiv(l[3], r[4], ONE),
    MulDiv(l[4], r[4], ONE) - MulDiv(l[1], r[1], ONE) - MulDiv(l[2], r[2], ONE) - MulDiv(l[3], r[3], ONE)>>

\* <<n * s, c>>
QAxisParts(n, s, c) == <<MulDiv(n[1], s, ONE), MulDiv(n[2], s, ONE), MulDiv(n[3], s, ONE), c>>

\* Quaternion.fromAxisAngle(axis, angle): the axis is normalized, the angle
\* is in micro-radians.
QFromAxisAngle(axis, angle) == QAxisParts(Normalize(axis), Sin(angle \div 2), Cos(angle \div 2))

\* Matrix3.fromQuaternion(q) times (0, 1, 0): the matrix's second column.
QRotateY(q) ==
  <<2 * (MulDiv(q[1], q[2], ONE) - MulDiv(q[3], q[4], ONE)),
    MulDiv(q[2], q[2], ONE) + MulDiv(q[4], q[4], ONE) - MulDiv(q[1], q[1], ONE) - MulDiv(q[3], q[3], ONE),
    2 * (MulDiv(q[2], q[3], ONE) + MulDiv(q[1], q[4], ONE))>>

\* Matrix3.fromQuaternion(q) times (0, 0, 1): the matrix's third column.
QRotateZ(q) ==
  <<2 * (MulDiv(q[1], q[3], ONE) + MulDiv(q[2], q[4], ONE)),
    2 * (MulDiv(q[2], q[3], ONE) - MulDiv(q[1], q[4], ONE)),
    MulDiv(q[3], q[3], ONE) + MulDiv(q[4], q[4], ONE) - MulDiv(q[1], q[1], ONE) - MulDiv(q[2], q[2], ONE)>>

(***************************************************************************)
(* Cesium.Transforms.eastNorthUpToFixedFrame(position): the East, North    *)
(* and Up axes (unit vectors in ECEF) of the tangent frame at a position.  *)
(* The model tabulates the frame per region of the globe, as an exactly    *)
(* orthonormal frame (a rotation, as in the program) whose axes lie within *)
(* 0.6 degrees of the true axes anywhere in the region; a position gets    *)
(* the frame of the nearest region.                                        *)
(***************************************************************************)
\* Cartesian3.fromDegrees(ARENA.CENTER_LON, ARENA.CENTER_LAT, ARENA.CENTER_ALT)
ARENA_CENTER == <<-174484668, -479392684, 381859679>>

\* Cartesian3.fromDegrees(0, 0, 3000)
EQUATOR_POSITION == <<638113700, 0, 0>>

\* Cartesian3.fromDegrees(53.13, -53.13, 3000)
SOUTH_POSITION == <<230214395, 306952527, -508164391>>

\* per region: a position, its height above the ellipsoid (cm) and the frame
Regions ==
  << [at |-> ARENA_CENTER, height |-> 200000,
      frame |-> [east |-> <<936000, -352000, 0>>, north |-> <<211200, 561600, 800000>>,
                 up |-> <<-281600, -748800, 600000>>]],
     [at |-> EQUATOR_POSITION, height |-> 300000,
      frame |-> [east |-> <<0, ONE, 0>>, north |-> <<0, 0, ONE>>, up |-> <<ONE, 0, 0>>]],
     [at |-> SOUTH_POSITION, height |-> 300000,
      frame |-> [east |-> <<-800000, 600000, 0>>, north |-> <<480000, 640000, 600000>>,
                 up |-> <<360000, 480000, -800000>>]] >>

\* Cartesian3.distanceSquared in m^2, as a wide natural
DistSqM(p, q) == MagSq(<<(p[1] - q[1]) \div 100, (p[2] - q[2]) \div 100, (p[3] - q[3]) \div 100>>)

\* is region k the nearest to the position, the first of those equally near?
Nearest(position, k) ==
  \A j \in 1..Len(Regions) :
    \/ WLT(DistSqM(position, Regions[k].at), DistSqM(position, Regions[j].at))
    \/ (k <= j /\ DistSqM(position, Regions[k].at) = DistSqM(position, Regions[j].at))

Region(position) == Regions[CHOOSE k \in 1..Len(Regions) : Nearest(position, k)]

EnuFrame(position) == Region(position).frame

\* Matrix3.multiplyByVector(enuToEcef, v)
EnuToEcef(f, v) ==
  <<DotUnit(v, <<f.east[1], f.north[1], f.up[1]>>),
    DotUnit(v, <<f.east[2], f.north[2], f.up[2]>>),
    DotUnit(v, <<f.east[3], f.north[3], f.up[3]>>)>>

\* Matrix3.multiplyByVector(ecefToEnu, v), ecefToEnu the inverse (the
\* transpose) of enuToEcef
EcefToEnu(f, v) == <<DotUnit(v, f.east), DotUnit(v, f.north), DotUnit(v, f.up)>>

(***************************************************************************)
(* PHYSICS constants (utils/constants.ts), in the model's units.           *)
(***************************************************************************)
\* kg
MASS == 12000
\* N
MAX_THRUST == 130000
\* N
IDLE_THRUST == 20000
\* m^2
WING_AREA == 28
\* 1.2, in thousandths
LIFT_COEFFICIENT == 1200
\* 0.025, in thousandths
DRAG_COEFFICIENT == 25
\* 1.225 kg/m^3, in g/m^3
AIR_DENSITY == 1225
\* 9.81 m/s^2, in cm/s^2
GRAVITY == 981
\* 80 m/s, in cm/s
MIN_SPEED == 8000
\* 600 m/s, in cm/s
MAX_SPEED == 60000
\* 250 m/s, in cm/s
CRUISE_SPEED == 25000
\* 2.0 rad/s, in micro-radians per second
MAX_PITCH_RATE == 2000000
\* 1.0 rad/s
MAX_YAW_RATE == 1000000
\* 4.0 rad/s
MAX_ROLL_RATE == 4000000
\* 3.0, in ppm
PITCH_SENSITIVITY == 3000000
\* 5.0, in ppm
ROLL_SENSITIVITY == 5000000
\* 1.5, in ppm
YAW_SENSITIVITY == 1500000
\* 0.95, in ppm
ANGULAR_DAMPING == 950000
\* 0.5 per second, in ppm per second
THROTTLE_RATE == 500000
\* the 0.0001 rad below which updateOrientation leaves the orientation alone
MIN_ROTATION_ANGLE == 100
\* the 0.1 m/s above which drag applies, in cm/s
MIN_DRAG_SPEED == 10

(***************************************************************************)
(* FlightModel.  An AircraftState is a record [position, orientation,      *)
(* velocity, angularVelocity, throttle, speed]; an InputState is a record  *)
(* [pitch, roll, yaw, throttleUp, throttleDown]; dt is in milliseconds.    *)
(***************************************************************************)
\* PHYSICS.THROTTLE_RATE * dt when the key is down
ThrottleStep(pressed, dt) == IF pressed THEN MulDiv(THROTTLE_RATE, dt, 1000) ELSE 0

updateThrottleUnclamped(throttle, input, dt) ==
  throttle + ThrottleStep(input.throttleUp, dt) - ThrottleStep(input.throttleDown, dt)

updateThrottle(throttle, input, dt) ==
  Max(0, Min(ONE, throttle + ThrottleStep(input.throttleUp, dt) - ThrottleStep(input.throttleDown, dt)))

\* control effectiveness: 0 at stall speed, 1 from cruise speed up
Effectiveness(speed) == Min(ONE, Max(0, MulDiv(speed - MIN_SPEED, ONE, CRUISE_SPEED - MIN_SPEED)))

\* input * sensitivity * effectiveness * dt, in micro-radians per second
ControlRate(in, sensitivity, effectiveness, dt) ==
  MulDiv(MulDiv(MulDiv(in, sensitivity, ONE), effectiveness, ONE), dt, 1000)

\* Math.max(-limit, Math.min(limit, rate))
ClampRate(rate, limit) == Max(-limit, Min(limit, rate))

\* damping, control inputs and clamps, given the effectiveness
SteeredRates(angularVelocity, input, effectiveness, dt) ==
  <<ClampRate(MulDiv(angularVelocity[1], ANGULAR_DAMPING, ONE)
                + ControlRate(input.pitch, PITCH_SENSITIVITY, effectiveness, dt), MAX_PITCH_RATE),
    ClampRate(MulDiv(angularVelocity[2], ANGULAR_DAMPING, ONE)
                + ControlRate(input.roll, ROLL_SENSITIVITY, effectiveness, dt), MAX_ROLL_RATE),
    ClampRate(MulDiv(angularVelocity[3], ANGULAR_DAMPING, ONE)
                - ControlRate(input.yaw, YAW_SENSITIVITY, effectiveness, dt), MAX_YAW_RATE)>>

updateAngularVelocity(angularVelocity, input, speed, dt) ==
  SteeredRates(angularVelocity, input, Effectiveness(speed), dt)

\* A first-order integration that does not renormalize.
updateOrientationFirstOrder(orientation, angularVelocity, dt) ==
  IF MulDiv(Magnitude(angularVelocity), dt, 1000) < MIN_ROTATION_ANGLE THEN orientation
  ELSE QMultiply(orientation,
                 <<MulDiv(angularVelocity[1], dt, 2000), MulDiv(angularVelocity[2], dt, 2000),
                   MulDiv(angularVelocity[3], dt, 2000), ONE>>)

\* the orientation turned by angle about angularVelocity / rate, normalized
Rotated(orientation, angularVelocity, rate, angle) ==
  IF angle < MIN_ROTATION_ANGLE THEN orientation
  ELSE QNormalize(QMultiply(orientation, QFromAxisAngle(VScale(angularVelocity, ONE, rate), angle)))

\* the orientation turned at the rate |angularVelocity| for dt
RotatedAtRate(orientation, angularVelocity, rate, dt) ==
  Rotated(orientation, angularVelocity, rate, MulDiv(rate, dt, 1000))

updateOrientation(orientation, angularVelocity, dt) ==
  RotatedAtRate(orientation, angularVelocity, Magnitude(angularVelocity), dt)

\* 0.5 * AIR_DENSITY * speed^2, in hundredths of a pascal
DynamicPressure(speed) == MulDiv(MulDiv(speed, speed, 100), AIR_DENSITY, 2000)

\* thrust along the aircraft's forward axis
ThrustAccel(state) ==
  VScale(Normalize(QRotateY(state.orientation)),
         ((IDLE_THRUST + MulDiv(MAX_THRUST - IDLE_THRUST, state.throttle, ONE)) * 100) \div MASS, ONE)

\* lift along the aircraft's up axis
LiftAccel(state, dynamicPressure) ==
  VScale(Normalize(QRotateZ(state.orientation)),
         MulDiv(dynamicPressure * WING_AREA, LIFT_COEFFICIENT, 1000) \div MASS, ONE)

\* drag against the velocity
DragAccel(velocityENU, speed, dynamicPressure) ==
  IF speed > MIN_DRAG_SPEED
  THEN VScale(Unit(velocityENU, speed),
              -(MulDiv(dynamicPressure * WING_AREA, DRAG_COEFFICIENT, 1000) \div MASS), ONE)
  ELSE ZERO3

\* thrust, lift and drag, given the dynamic pressure
Forces(state, velocityENU, speed, dynamicPressure) ==
  After(dynamicPressure,
        VAdd(VAdd(ThrustAccel(state), LiftAccel(state, dynamicPressure)),
             DragAccel(velocityENU, speed, dynamicPressure)))

\* thrust, lift and drag, given the speed
ForcesAtSpeed(state, velocityENU, speed) ==
  After(speed, Forces(state, velocityENU, speed, DynamicPressure(speed)))

\* thrust, lift and drag, without gravity
AeroAcceleration(state, velocityENU) == ForcesAtSpeed(state, velocityENU, Magnitude(velocityENU))

\* Gravity along the ECEF -Z axis rather than the local down axis.
calculateAccelerationEcefGravity(state, velocityENU) ==
  VAdd(AeroAcceleration(state, velocityENU), EcefToEnu(EnuFrame(state.position), <<0, 0, -GRAVITY>>))

calculateAcceleration(state, velocityENU) ==
  VAdd(AeroAcceleration(state, velocityENU), <<0, 0, -GRAVITY>>)

clampSpeedNone(velocityENU) == velocityENU

\* the velocity rescaled to MAX_SPEED when its magnitude newSpeed is above
Clamped(velocityENU, newSpeed) ==
  IF newSpeed > MAX_SPEED THEN VScale(Unit(velocityENU, newSpeed), MAX_SPEED, ONE) ELSE velocityENU

\* update, step 7
clampSpeed(velocityENU) == After(velocityENU, Clamped(velocityENU, Magnitude(velocityENU)))

updatePosition(position, velocity, dt) == VAdd(position, VScale(velocity, dt, 1000))

\* Math.sin and Math.cos of -heading / 2 and of heading, for the headings of
\* the spawn points (degrees), in ppm
HeadingTrig ==
  [h \in {0, 45, 90, 135, 180, 225, 270, 315} |->
     CASE h = 0   -> [sinHalf |-> 0, cosHalf |-> 1000000, sin |-> 0, cos |-> 1000000]
       [] h = 45  -> [sinHalf |-> -382683, cosHalf |-> 923880, sin |-> 707107, cos |-> 707107]
       [] h = 90  -> [sinHalf |-> -707107, cosHalf |-> 707107, sin |-> 1000000, cos |-> 0]
       [] h = 135 -> [sinHalf |-> -923880, cosHalf |-> 382683, sin |-> 707107, cos |-> -707107]
       [] h = 180 -> [sinHalf |-> -1000000, cosHalf |-> 0, sin |-> 0, cos |-> -1000000]
       [] h = 225 -> [sinHalf |-> -923880, cosHalf |-> -382683, sin |-> -707107, cos |-> -707107]
       [] h = 270 -> [sinHalf |-> -707107, cosHalf |-> -707107, sin |-> -1000000, cos |-> 0]
       [] h = 315 -> [sinHalf |-> -382683, cosHalf |-> -923880, sin |-> -707107, cos |-> 707107]]

\* createInitialState(longitude, latitude, altitude, heading), the position
\* being Cartesian3.fromDegrees(longitude, latitude, altitude)
createInitialState(position, heading) ==
  [position |-> position,
   orientation |-> <<0, 0, HeadingTrig[heading].sinHalf, HeadingTrig[heading].cosHalf>>,
   velocity |-> EnuToEcef(EnuFrame(position),
                          VScale(<<HeadingTrig[heading].sin, HeadingTrig[heading].cos, 0>>, CRUISE_SPEED, ONE)),
   angularVelocity |-> ZERO3,
   throttle |-> ONE \div 2,
   speed |-> CRUISE_SPEED]

\* SPAWN_POINTS (utils/constants.ts), the positions through fromDegrees
SPAWN_POINTS ==
  << [position |-> <<-174283180, -478839101, 382806009>>, heading |-> 180],
     [position |-> <<-174740252, -480094897, 381032560>>, heading |-> 0],
     [position |-> <<-173674888, -479771582, 381919861>>, heading |-> 270],
     [position |-> <<-175348545, -479162420, 381919861>>, heading |-> 90],
     [position |-> <<-173979441, -479305607, 382363079>>, heading |-> 225],
     [position |-> <<-174815722, -479001226, 382363079>>, heading |-> 135],
     [position |-> <<-174207429, -479933705, 381476354>>, heading |-> 315],
     [position |-> <<-175044806, -479628925, 381476354>>, heading |-> 45] >>

(***************************************************************************)
(* useDeadReckoning: the predictor of a remote player.  Times are in ms,   *)
(* correctionAlpha is in parts per million.                                *)
(***************************************************************************)
CORRECTION_DURATION == 200
MAX_EXTRAPOLATION == 500
\* cm
SNAP_THRESHOLD == 5000
\* the 0.001 below which update() no longer applies the correction, ppm
ALPHA_EPSILON == 1000

\* the players map with playerId set to player
Put(players, playerId, player) ==
  [id \in DOMAIN players \cup {playerId} |-> IF id = playerId THEN player ELSE players[id]]

\* position + velocity * t, t in ms
extrapolatePosition(position, velocity, t) == VAdd(position, VScale(velocity, t, 1000))

\* the record initPlayer stores; clock is Date.now()
initPlayer(position, orientation, velocity, clock) ==
  [confirmedPosition |-> position,
   confirmedOrientation |-> orientation,
   confirmedVelocity |-> velocity,
   confirmedTimestamp |-> clock,
   renderPosition |-> position,
   renderOrientation |-> orientation,
   correctionOffset |-> ZERO3,
   correctionAlpha |-> 0]

\* errorMagnitude: how far the sample is from where the previous confirmed
\* state predicted the player to be at the sample's timestamp
PredictionError(player, sample) ==
  Magnitude(VSub(sample.position,
                 extrapolatePosition(player.confirmedPosition, player.confirmedVelocity,
                                     sample.timestamp - player.confirmedTimestamp)))

\* A snap that leaves a correction to blend out.
SnappedKeepingCorrection(player, sample) ==
  [player EXCEPT !.renderPosition = sample.position,
                 !.renderOrientation = sample.orientation,
                 !.correctionOffset = VSub(player.renderPosition, sample.position),
                 !.correctionAlpha = ONE]

\* receiveUpdate, the snap branch
Snapped(player, sample) ==
  [player EXCEPT !.renderPosition = sample.position,
                 !.renderOrientation = sample.orientation,
                 !.correctionOffset = ZERO3,
                 !.correctionAlpha = 0]

\* receiveUpdate, the blend branch
Blended(player, sample) ==
  [player EXCEPT !.correctionOffset = VSub(player.renderPosition, sample.position),
                 !.correctionAlpha = ONE]

\* receiveUpdate, "Update confirmed state"
Confirmed(player, sample) ==
  [player EXCEPT !.confirmedPosition = sample.position,
                 !.confirmedOrientation = sample.orientation,
                 !.confirmedVelocity = sample.velocity,
                 !.confirmedTimestamp = sample.timestamp]

\* receiveUpdate for a player that is tracked
Reconciled(player, sample) ==
  Confirmed(IF PredictionError(player, sample) > SNAP_THRESHOLD
            THEN Snapped(player, sample)
            ELSE Blended(player, sample), sample)

receiveUpdate(players, playerId, sample, clock) ==
  IF playerId \notin DOMAIN players
  THEN Put(players, playerId,
           initPlayer(sample.position, sample.orientation, sample.velocity, clock))
  ELSE [players EXCEPT ![playerId] = Reconciled(@, sample)]

\* An extrapolation time that is not capped.
ClampedTimeUncapped(timeSinceConfirmed) == timeSinceConfirmed

\* clampedTime
ClampedTime(timeSinceConfirmed) == Min(timeSinceConfirmed, MAX_EXTRAPOLATION)

\* A decay over twice the correction duration.
DecayedSlowly(correctionAlpha, dt) ==
  Max(0, correctionAlpha - MulDiv(dt, ONE, 2 * CORRECTION_DURATION))

\* correctionAlpha after the decay of one update(dt)
Decayed(correctionAlpha, dt) == Max(0, correctionAlpha - MulDiv(dt, ONE, CORRECTION_DURATION))

\* update(), the branch that applies the correction, given the decayed alpha
Corrected(player, extrapolated, alpha) ==
  [player EXCEPT !.correctionAlpha = alpha,
                 !.renderPosition = VAdd(extrapolated, VScale(player.correctionOffset, alpha, ONE)),
                 !.renderOrientation = player.confirmedOrientation]

\* An update() that decays whatever alpha is left, without the epsilon.
RenderedToZero(player, extrapolated, dt) ==
  Corrected(player, extrapolated, Decayed(player.correctionAlpha, dt))

\* update(), from the extrapolated position on
Rendered(player, extrapolated, dt) ==
  IF player.correctionAlpha > ALPHA_EPSILON
  THEN Corrected(player, extrapolated, Decayed(player.correctionAlpha, dt))
  ELSE [player EXCEPT !.renderPosition = extrapolated,
                      !.renderOrientation = player.confirmedOrientation]

\* update(), the body of the loop, for one player
updatePlayer(player, clock, dt) ==
  Rendered(player,
           extrapolatePosition(player.confirmedPosition, player.confirmedVelocity,
                               ClampedTime(clock - player.confirmedTimestamp)),
           dt)

\* useDeadReckoning's update(dt), clock being its Date.now()
deadReckoningUpdate(players, clock, dt) ==
  [id \in DOMAIN players |-> updatePlayer(players[id], clock, dt)]

(***************************************************************************)
(* useWeapons.  A registry (a JavaScript Map) is a sequence of records in  *)
(* insertion order, which is the order a for-of loop visits it in.  A      *)
(* missile is [id, ownerId, position, velocity, targetId, createdAt], a    *)
(* bullet the same without targetId, a player [id, position, velocity,     *)
(* isAlive].  Lengths in cm, speeds in cm/s, times in ms.                  *)
(***************************************************************************)
MISSILE_SPEED == 40000

\* micro-radians per second
MISSILE_TURN_RATE == 3000000

MISSILE_LIFETIME == 10000

PROXIMITY_FUSE == 1500

GUN_SPEED == 100000

GUN_RANGE == 150000

COLLISION_AIRCRAFT == 1000

COLLISION_BULLET == 50

\* targetId: null
NoTarget == "null"

\* Map.get(id): the index of the entry with that id, 0 if there is none
IndexOf(registry, id) ==
  IF \E k \in 1..Len(registry) : registry[k].id = id
  THEN CHOOSE k \in 1..Len(registry) : registry[k].id = id
  ELSE 0

\* Cartesian3.distance(a, b) < radius
DistanceBelow(a, b, radius) == WLT(MagSq(VSub(a, b)), WSq(radius))

\* Cartesian3.lerp(start, end, t): end * t + start * (1 - t), t in ppm
Lerp(start, end, t) == VAdd(VScale(end, t, ONE), VScale(start, ONE - t, ONE))

\* Math.min(TURN_RATE * dt, 1), in ppm
TurnAmount(dt) == Min(MulDiv(MISSILE_TURN_RATE, dt, 1000), ONE)

\* the blend that ignores the target (turn amount 0)
NewDirUnturned(currentDir, toTarget, dt) == Normalize(Lerp(currentDir, toTarget, 0))

\* newDir: the current direction blended toward the target and renormalized
NewDir(currentDir, toTarget, dt) == Normalize(Lerp(currentDir, toTarget, TurnAmount(dt)))

\* the velocity of a missile that tracks target
Guided(missile, target, dt) ==
  VScale(NewDir(Normalize(missile.velocity),
                Normalize(VSub(target.position, missile.position)), dt),
         MISSILE_SPEED, ONE)

\* a tracking test that does not look at target.isAlive
TracksDead(missile, players, k) ==
  /\ missile.targetId # NoTarget
  /\ k # 0

\* if (missile.targetId) { target = players.get(...); if (target && target.isAlive)
Tracks(missile, players, k) ==
  /\ missile.targetId # NoTarget
  /\ k # 0
  /\ players[k].isAlive

TrackedVelocity(missile, players, k, dt) ==
  IF Tracks(missile, players, k) THEN Guided(missile, players[k], dt) ELSE missile.velocity

\* position += velocity * dt
Advanced(projectile, velocity, dt) ==
  [projectile EXCEPT !.velocity = velocity,
                     !.position = VAdd(projectile.position, VScale(velocity, dt, 1000))]

updateMissile(missile, players, dt) ==
  Advanced(missile, TrackedVelocity(missile, players, IndexOf(players, missile.targetId), dt), dt)

\* the loop of updateMissiles from entry k on: the registry it leaves
RECURSIVE MissilesFrom(_, _, _, _, _)
MissilesFrom(missiles, k, players, clock, dt) ==
  IF k > Len(missiles) THEN <<>>
  ELSE IF clock - missiles[k].createdAt > MISSILE_LIFETIME
       THEN MissilesFrom(missiles, k + 1, players, clock, dt)
       ELSE <<updateMissile(missiles[k], players, dt)>>
              \o MissilesFrom(missiles, k + 1, players, clock, dt)

updateMissiles(missiles, players, clock, dt) == MissilesFrom(missiles, 1, players, clock, dt)

\* (RANGE / SPEED) * 1000, ms
BulletLifetime == (GUN_RANGE * 1000) \div GUN_SPEED

RECURSIVE BulletsFrom(_, _, _, _)
BulletsFrom(bullets, k, clock, dt) ==
  IF k > Len(bullets) THEN <<>>
  ELSE IF clock - bullets[k].createdAt > BulletLifetime
       THEN BulletsFrom(bullets, k + 1, clock, dt)
       ELSE <<Advanced(bullets[k], bullets[k].velocity, dt)>>
              \o BulletsFrom(bullets, k + 1, clock, dt)

updateBullets(bullets, clock, dt) == BulletsFrom(bullets, 1, clock, dt)

\* for (const [playerId, player] of players), from entry k on, without the
\* test that skips the projectile's owner
RECURSIVE FirstHitAnyOwner(_, _, _, _)
FirstHitAnyOwner(projectile, players, radius, k) ==
  IF k > Len(players) THEN 0
  ELSE IF ~players[k].isAlive THEN FirstHitAnyOwner(projectile, players, radius, k + 1)
  ELSE IF DistanceBelow(projectile.position, players[k].position, radius) THEN k
  ELSE FirstHitAnyOwner(projectile, players, radius, k + 1)

\* for (const [playerId, player] of players), from entry k on: the index of
\* the player at which the loop pushes a hit and breaks, 0 if it runs out
RECURSIVE FirstHit(_, _, _, _)
FirstHit(projectile, players, radius, k) ==
  IF k > Len(players) THEN 0
  ELSE IF players[k].id = projectile.ownerId THEN FirstHit(projectile, players, radius, k + 1)
  ELSE IF ~players[k].isAlive THEN FirstHit(projectile, players, radius, k + 1)
  ELSE IF DistanceBelow(projectile.position, players[k].position, radius) THEN k
  ELSE FirstHit(projectile, players, radius, k + 1)

\* one projectile's turn: hits.push(...) and delete, or nothing.  A hit is
\* [projectileId, playerId, ownerId], projectileId being the program's
\* missileId or bulletId.
Struck(result, projectile, players, k) ==
  IF k = 0
  THEN [hits |-> result.hits, registry |-> Append(result.registry, projectile)]
  ELSE [hits |-> Append(result.hits, [projectileId |-> projectile.id,
                                      playerId |-> players[k].id,
                                      ownerId |-> projectile.ownerId]),
        registry |-> result.registry]

\* the projectile loop of a collision check from entry k on: the hits it
\* returns and the registry it leaves
RECURSIVE CollisionsFrom(_, _, _, _, _)
CollisionsFrom(projectiles, k, players, radius, result) ==
  IF k > Len(projectiles) THEN result
  ELSE CollisionsFrom(projectiles, k + 1, players, radius,
                      Struck(result, projectiles[k], players,
                             FirstHit(projectiles[k], players, radius, 1)))

checkMissileCollisions(missiles, players) ==
  CollisionsFrom(missiles, 1, players, COLLISION_AIRCRAFT + PROXIMITY_FUSE,
                 [hits |-> <<>>, registry |-> <<>>])

checkBulletCollisions(bullets, players) ==
  CollisionsFrom(bullets, 1, players, COLLISION_AIRCRAFT + COLLISION_BULLET,
                 [hits |-> <<>>, registry |-> <<>>])

(***************************************************************************)
(* useWeapons: launching.  useWeapons takes the forward direction from the *)
(* FlightModel it imports, getForwardDirection(orientation): the rotation  *)
(* of the orientation applied to (0, 0, -1).                               *)
(***************************************************************************)
\* MISSILE.COOLDOWN, ms
MISSILE_COOLDOWN == 2000

\* the 15 m in front of the aircraft a missile is spawned at, cm
MISSILE_SPAWN_OFFSET == 1500

\* MISSILE.LOCK_RANGE, cm
LOCK_RANGE == 200000

\* Cesium.Math.toRadians(MISSILE.LOCK_ANGLE), micro-radians
LOCK_ANGLE_RAD == 523599

getForwardDirection(orientation) == Normalize(VScale(QRotateZ(orientation), -1, 1))

\* fireMissile returned null
NoMissile == [id |-> "null"]

\* the missile fireMissile builds
Launched(id, ownerId, state, forward, targetId, clock) ==
  [id |-> id, ownerId |-> ownerId,
   position |-> VAdd(state.position, VScale(forward, MISSILE_SPAWN_OFFSET, ONE)),
   velocity |-> VScale(forward, MISSILE_SPEED, ONE),
   targetId |-> targetId, createdAt |-> clock]

\* missiles.set(missile.id, missile); lastMissileTime = now
Stored(registry, missile, clock) ==
  [missile |-> missile, missiles |-> Append(registry, missile), lastMissileTime |-> clock]

\* fireMissile(ownerId, state, targetId), with the registry and the cooldown
\* clock it reads, its Date.now() and the id generateId() gives; the result is
\* the missile returned, the registry and the cooldown clock
fireMissile(registry, lastMissileTime, ownerId, state, targetId, clock, id) ==
  IF clock - lastMissileTime < MISSILE_COOLDOWN
  THEN [missile |-> NoMissile, missiles |-> registry, lastMissileTime |-> lastMissileTime]
  ELSE Stored(registry,
              Launched(id, ownerId, state, getForwardDirection(state.orientation), targetId, clock),
              clock)

(***************************************************************************)
(* useWeapons: findLockOnTarget.  Angles are in micro-radians, scores in   *)
(* ppm.                                                                    *)
(***************************************************************************)
\* the angle in lo..hi whose cosine is c, by bisection
RECURSIVE AcosIn(_, _, _)
AcosStep(c, lo, hi, mid) == IF Cos(mid) > c THEN AcosIn(c, mid, hi) ELSE AcosIn(c, lo, mid)

AcosIn(c, lo, hi) == IF hi - lo <= 1 THEN lo ELSE AcosStep(c, lo, hi, (lo + hi) \div 2)

\* Math.acos(Math.min(1, Math.max(-1, dot))); an angle beyond 1 rad, which is
\* beyond every angle it is compared with, is given as 1 rad
Acos(dot) ==
  IF dot >= ONE THEN 0
  ELSE IF dot <= Cos(ONE) THEN ONE
  ELSE AcosIn(dot, 0, ONE)

\* score = 1 - angle / lockAngleRad
Score(angle) == ONE - MulDiv(angle, ONE, LOCK_ANGLE_RAD)

\* the tests a player passes before it is scored
InLock(state, forward, playerId, player) ==
  /\ player.id # playerId
  /\ player.isAlive
  /\ Magnitude(VSub(player.position, state.position)) <= LOCK_RANGE
  /\ Acos(DotUnit(forward, Normalize(VSub(player.position, state.position)))) <= LOCK_ANGLE_RAD

LockAngle(state, forward, player) ==
  Acos(DotUnit(forward, Normalize(VSub(player.position, state.position))))

\* The scan that lets a later player of equal score take the lock.
RECURSIVE LockFromLast(_, _, _, _, _, _, _)
LockFromLast(state, forward, playerId, players, k, bestTarget, bestScore) ==
  IF k > Len(players) THEN bestTarget
  ELSE IF InLock(state, forward, playerId, players[k])
          /\ Score(LockAngle(state, forward, players[k])) >= bestScore
       THEN LockFromLast(state, forward, playerId, players, k + 1, players[k].id,
                         Score(LockAngle(state, forward, players[k])))
       ELSE LockFromLast(state, forward, playerId, players, k + 1, bestTarget, bestScore)

\* the loop of findLockOnTarget from entry k on
RECURSIVE LockFrom(_, _, _, _, _, _, _)
LockFrom(state, forward, playerId, players, k, bestTarget, bestScore) ==
  IF k > Len(players) THEN bestTarget
  ELSE IF InLock(state, forward, playerId, players[k])
          /\ Score(LockAngle(state, forward, players[k])) > bestScore
       THEN LockFrom(state, forward, playerId, players, k + 1, players[k].id,
                     Score(LockAngle(state, forward, players[k])))
       ELSE LockFrom(state, forward, playerId, players, k + 1, bestTarget, bestScore)

findLockOnTarget(state, playerId, players) ==
  LockFrom(state, getForwardDirection(state.orientation), playerId, players, 1, NoTarget, -ONE)

(***************************************************************************)
(* GameArena's constraint enforcers: enforceArenaBounds and                *)
(* enforceAltitudeLimits, which act on the local AircraftState.            *)
(***************************************************************************)
\* ARENA.RADIUS, 50 km in cm
ARENA_RADIUS == 5000000

\* the 0.9 of the radius beyond which the velocity is turned back, ppm
SOFT_BOUNDARY == 900000

\* the lerp fraction 0.02 of the turn back, ppm
TURN_BACK == 20000

\* the 0.95 of the radius the teleport lands at, ppm
TELEPORT_FRACTION == 950000

\* PHYSICS.MIN_ALTITUDE, cm
MIN_ALTITUDE == 10000

\* PHYSICS.MAX_ALTITUDE, cm
MAX_ALTITUDE == 1500000

\* the 50 m inside the limit an aircraft is put back at, cm
ALTITUDE_MARGIN == 5000

\* twice the Earth's mean radius, m
EARTH_DIAMETER == 12742000

\* Cartesian3.distance(position, ARENA.CENTER)
DistanceFromCenter(position) == Magnitude(VSub(position, ARENA_CENTER))

\* the velocity blended toward the centre, at the speed it had
TurnedBack(state) ==
  [state EXCEPT !.velocity =
     VScale(Normalize(Lerp(Normalize(state.velocity),
                           Normalize(VSub(ARENA_CENTER, state.position)), TURN_BACK)),
            Magnitude(state.velocity), ONE)]

\* a hard boundary that leaves the position alone
NotTeleported(position) == position

\* ARENA.CENTER + normalize(ARENA.CENTER - position) * (ARENA.RADIUS * 0.95)
Teleported(position) ==
  VAdd(ARENA_CENTER,
       VScale(Normalize(VSub(ARENA_CENTER, position)),
              MulDiv(ARENA_RADIUS, TELEPORT_FRACTION, ONE), ONE))

\* the two ifs of enforceArenaBounds, on the distance measured before them
BoundsEnforced(state, turned, distance) ==
  [turned EXCEPT !.position =
     IF distance > ARENA_RADIUS THEN Teleported(state.position) ELSE state.position]

enforceArenaBounds(state, distance) ==
  BoundsEnforced(state,
                 IF distance > MulDiv(ARENA_RADIUS, SOFT_BOUNDARY, ONE)
                 THEN TurnedBack(state) ELSE state,
                 distance)

\* the height of a point above the ellipsoid, from its offset <<e, n, u>> in
\* the frame of a region: the region's height, plus u, plus the drop of the
\* Earth's surface below the tangent plane over the horizontal offset
HeightAt(region, offset) ==
  region.height + offset[3]
    + MulDiv(offset[1] \div 10, offset[1] \div 10, EARTH_DIAMETER)
    + MulDiv(offset[2] \div 10, offset[2] \div 10, EARTH_DIAMETER)

\* cesium.getCartographic(position).altitude
Altitude(position) ==
  HeightAt(Region(position), EcefToEnu(EnuFrame(position), VSub(position, Region(position).at)))

\* Cartesian3.fromDegrees(longitude, latitude, height) for the longitude and
\* latitude of a position whose altitude is known: the position moved along
\* the vertical
AtHeight(position, altitude, height) ==
  VAdd(position, VScale(EnuFrame(position).up, height - altitude, ONE))

\* if (aircraftState.velocity.z < 0) aircraftState.velocity.z = 0
NoNegativeZ(velocity) == <<velocity[1], velocity[2], Max(velocity[3], 0)>>

\* the first if of enforceAltitudeLimits
FloorEnforced(state, altitude) ==
  IF altitude < MIN_ALTITUDE
  THEN [state EXCEPT !.position = AtHeight(state.position, altitude, MIN_ALTITUDE + ALTITUDE_MARGIN),
                     !.velocity = NoNegativeZ(state.velocity)]
  ELSE state

\* the second if, on the cartographic position read before the first
CeilingEnforced(state, floored, altitude) ==
  IF altitude > MAX_ALTITUDE
  THEN [floored EXCEPT !.position = AtHeight(state.position, altitude, MAX_ALTITUDE - ALTITUDE_MARGIN)]
  ELSE floored

enforceAltitudeLimits(state, altitude) ==
  CeilingEnforced(state, FloorEnforced(state, altitude), altitude)

(***************************************************************************)
(* State.                                                                   *)
(*   aircraft   the local AircraftState (GameArena's aircraftState)        *)
(*   last       the call that produced it: [op, state, input, dt], state   *)
(*              being the AircraftState the call was given                 *)
(*   tick       the number of frames run                                   *)
(*   now        the local clock (Date.now()), ms                           *)
(*   drPlayers  useDeadReckoning's players map: id -> predictor            *)
(*   track      per remote id, what was received: the number of samples,   *)
(*              the latest sample, the local time it arrived at, its       *)
(*              prediction error (-1 for the first sample) and the total   *)
(*              dt of the update() calls since                             *)
(*   missiles   useWeapons' missile registry                               *)
(*   bullets    useWeapons' bullet registry                                *)
(*   players    useNetworking's registry of the remote players             *)
(*   game       the rest of the arena component's state: whether the local *)
(*              player is alive, the respawn countdowns, the cooldown      *)
(*              clocks, the connection                                     *)
(***************************************************************************)
VARIABLES aircraft, last, tick, now, drPlayers, track, missiles, bullets, players, game

vars == <<aircraft, last, tick, now, drPlayers, track, missiles, bullets, players, game>>

drVars == <<now, drPlayers, track>>

weaponVars == <<missiles, bullets, players, game>>

NoCall == [op |-> "none"]

\* the arena component is not part of the scenario
NoGame == [phase |-> "none"]

\* no remote player is tracked
DRIdle ==
  /\ now = 0
  /\ drPlayers = <<>>
  /\ track = <<>>

\* nothing is in flight and nobody has joined
WeaponsIdle ==
  /\ missiles = <<>>
  /\ bullets = <<>>
  /\ players = <<>>
  /\ game = NoGame

(***************************************************************************)
(* SpecFlight: FlightModel.update called frame after frame on states that  *)
(* start from createInitialState, with the inputs of useInput and the      *)
(* frame times of the game loop (dt is capped at 0.1 s there).             *)
(***************************************************************************)
MaxTicks == 2

\* the game loop's cap on dt, ms
MAX_FRAME_TIME == 100

\* a 60 Hz frame and the game loop's cap, ms
FrameTimes == {16, MAX_FRAME_TIME}

Inputs ==
  { [pitch |-> 0, roll |-> 0, yaw |-> 0, throttleUp |-> FALSE, throttleDown |-> FALSE],
    [pitch |-> ONE, roll |-> 0, yaw |-> 0, throttleUp |-> TRUE, throttleDown |-> FALSE],
    [pitch |-> 0, roll |-> -ONE, yaw |-> ONE \div 2, throttleUp |-> FALSE, throttleDown |-> TRUE],
    [pitch |-> -ONE, roll |-> ONE, yaw |-> -ONE, throttleUp |-> TRUE, throttleDown |-> TRUE] }

\* Cartesian3.fromDegrees(-110, 37, 3000), the position of FlightModel.test.ts
TEST_POSITION == <<-174511983, -479467731, 381919861>>

\* the states of FlightModel.test.ts's gravity tests: at rest, throttle closed
AtRest(position) ==
  [createInitialState(position, 0) EXCEPT !.velocity = ZERO3, !.throttle = 0]

\* a state near the speed limit: the spawn velocity scaled to 599 m/s
Faster(state, throttle) ==
  [state EXCEPT !.velocity = VScale(state.velocity, 59900, CRUISE_SPEED), !.speed = 59900,
                !.throttle = throttle]

Fast(spawn, throttle) == Faster(createInitialState(spawn.position, spawn.heading), throttle)

\* at rest with the nose straight up (a quarter turn about the body X axis)
AtRestNoseUp(position) == [AtRest(position) EXCEPT !.orientation = <<707107, 0, 0, 707107>>]

FlightStates ==
  { createInitialState(SPAWN_POINTS[i].position, SPAWN_POINTS[i].heading) : i \in {1, 4, 8} }
    \cup { AtRest(position) : position \in {TEST_POSITION, EQUATOR_POSITION, SOUTH_POSITION} }
    \cup { AtRestNoseUp(SOUTH_POSITION) }
    \cup { Fast(SPAWN_POINTS[5], throttle) : throttle \in {990000, ONE} }

InitFlight ==
  /\ aircraft \in FlightStates
  /\ last = NoCall
  /\ tick = 0
  /\ DRIdle
  /\ WeaponsIdle

\* FlightModel.update(state, input, dt), its result becoming the aircraft
\* state: one bound name per local constant of the function body.
update(state, input, dt) ==
  \E frame \in {EnuFrame(state.position)} :
  \E velocityENU \in {EcefToEnu(frame, state.velocity)} :
  \E speed \in {Magnitude(velocityENU)} :
  \E throttle \in {updateThrottle(state.throttle, input, dt)} :
  \E angularVelocity \in {updateAngularVelocity(state.angularVelocity, input, speed, dt)} :
  \E orientation \in {updateOrientation(state.orientation, angularVelocity, dt)} :
  \E newState \in {[state EXCEPT !.throttle = throttle, !.speed = speed,
                                 !.angularVelocity = angularVelocity,
                                 !.orientation = orientation]} :
  \E accelerationENU \in {calculateAcceleration(newState, velocityENU)} :
  \E newVelocityENU \in {clampSpeed(VAdd(velocityENU, VScale(accelerationENU, dt, 1000)))} :
  \E velocity \in {EnuToEcef(frame, newVelocityENU)} :
    aircraft' = [newState EXCEPT !.velocity = velocity, !.speed = Magnitude(velocity),
                                 !.position = updatePosition(state.position, velocity, dt)]

FlightUpdate ==
  /\ tick < MaxTicks
  /\ \E input \in Inputs, dt \in FrameTimes :
       /\ update(aircraft, input, dt)
       /\ last' = [op |-> "update", state |-> aircraft, input |-> input, dt |-> dt]
  /\ tick' = tick + 1
  /\ UNCHANGED <<drVars, weaponVars>>

NextFlight == FlightUpdate

SpecFlight == InitFlight /\ [][NextFlight]_vars

(***************************************************************************)
(* C1: the throttle stays between 0 and 1: in every state, whatever the    *)
(* throttle inputs and frame times were, 0 <= throttle <= 1.               *)
(***************************************************************************)
C1_ThrottleInUnitInterval == 0 <= aircraft.throttle /\ aircraft.throttle <= ONE

\* an update whose throttle-up step went past 1 and was clamped to 1
C1_Witness ==
  /\ last.op = "update"
  /\ last.input.throttleUp /\ ~last.input.throttleDown
  /\ last.state.throttle + MulDiv(THROTTLE_RATE, last.dt, 1000) > ONE
  /\ aircraft.throttle = ONE

(***************************************************************************)
(* C2: after update returns, the state's speed (the magnitude of its       *)
(* velocity) is at most PHYSICS.MAX_SPEED.                                 *)
(***************************************************************************)
C2_SpeedAtMostMax ==
  last.op = "update" =>
    /\ aircraft.speed <= MAX_SPEED
    /\ WLE(MagSq(aircraft.velocity), WSq(MAX_SPEED))

\* an update that took a slower state up to the limit
C2_Witness ==
  /\ last.op = "update"
  /\ last.state.speed < MAX_SPEED - 2
  /\ aircraft.speed >= MAX_SPEED - 2

(***************************************************************************)
(* C3: in every state reached from createInitialState by updates, whether  *)
(* the update rotated the orientation or skipped the rotation, the norm of *)
(* the orientation quaternion is within 10^-5 of 1.                        *)
(***************************************************************************)
C3_OrientationUnitNorm ==
  /\ WLE(WSq(ONE - (ONE \div 100000)), QMagSq(aircraft.orientation))
  /\ WLE(QMagSq(aircraft.orientation), WSq(ONE + (ONE \div 100000)))

\* a second update in a row that rotated the orientation
C3_Witness ==
  /\ tick = 2
  /\ last.op = "update"
  /\ MulDiv(Magnitude(aircraft.angularVelocity), last.dt, 1000) >= MIN_ROTATION_ANGLE
  /\ aircraft.orientation # last.state.orientation

(***************************************************************************)
(* C4: an update of an aircraft at rest with the throttle closed leaves a  *)
(* velocity that points toward the Earth's centre: its dot product with    *)
(* the outward radial direction at the aircraft's position is negative,    *)
(* wherever on the globe the aircraft is.                                  *)
(***************************************************************************)
RadialDirection(position) ==
  Normalize(<<position[1] \div 100, position[2] \div 100, position[3] \div 100>>)

MaxFrames == 3

MaxSamples == 2

PlayerIds == {"p1", "p2"}

\* a short frame and a long hitch, ms
FrameDeltas == {50, 600}

DR_ORIGIN == SPAWN_POINTS[1].position

\* what a remote player sends: position, orientation, velocity, and how long
\* before its arrival the message was stamped (ms)
Samples ==
  { [position |-> DR_ORIGIN, orientation |-> <<0, 0, 0, ONE>>,
     velocity |-> <<20000, 0, 0>>, lag |-> 0],
    [position |-> VAdd(DR_ORIGIN, <<1000, 300, 0>>), orientation |-> <<0, 0, 0, ONE>>,
     velocity |-> <<20000, 0, 0>>, lag |-> 40],
    [position |-> VAdd(DR_ORIGIN, <<0, 10000, 0>>), orientation |-> <<0, 0, 707107, 707107>>,
     velocity |-> <<20000, 0, 0>>, lag |-> 0],
    [position |-> VAdd(DR_ORIGIN, <<1000, 300, 0>>), orientation |-> <<0, 0, 707107, 707107>>,
     velocity |-> ZERO3, lag |-> 0] }

\* the message's content, stamped by its sender
Stamped(template, clock) ==
  [position |-> template.position, orientation |-> template.orientation,
   velocity |-> template.velocity, timestamp |-> clock - template.lag]

\* the number of samples received for id
Received(id) == IF id \in DOMAIN track THEN track[id].samples ELSE 0

RECURSIVE TotalReceived(_)
ReceivedWith(id, ids) == Received(id) + TotalReceived(ids \ {id})

TotalReceived(ids) == IF ids = {} THEN 0 ELSE ReceivedWith(CHOOSE id \in ids : TRUE, ids)

InitDR ==
  /\ aircraft = createInitialState(SPAWN_POINTS[1].position, SPAWN_POINTS[1].heading)
  /\ last = NoCall
  /\ tick = 0
  /\ now = 1000
  /\ drPlayers = <<>>
  /\ track = <<>>
  /\ WeaponsIdle

\* a position message is handed to receiveUpdate
DRReceive ==
  /\ TotalReceived(PlayerIds) < MaxSamples
  /\ \E id \in PlayerIds, template \in Samples :
       \E sample \in {Stamped(template, now)} :
         /\ drPlayers' = receiveUpdate(drPlayers, id, sample, now)
         /\ track' = Put(track, id,
                         [samples |-> Received(id) + 1, sample |-> sample, at |-> now,
                          error |-> IF id \in DOMAIN drPlayers
                                    THEN PredictionError(drPlayers[id], sample) ELSE -1,
                          updated |-> 0])
         /\ last' = [op |-> "receiveUpdate", id |-> id, before |-> drPlayers]
  /\ UNCHANGED <<aircraft, tick, now, weaponVars>>

\* a frame of the game loop: deadReckoning.update(dt)
DRFrame ==
  /\ tick < MaxFrames
  /\ \E delta \in FrameDeltas :
       /\ now' = now + delta
       /\ drPlayers' = deadReckoningUpdate(drPlayers, now + delta, Min(delta, MAX_FRAME_TIME))
       /\ track' = [id \in DOMAIN track |->
                      [track[id] EXCEPT !.updated = @ + Min(delta, MAX_FRAME_TIME)]]
       /\ last' = [op |-> "deadReckoningUpdate", before |-> drPlayers, clock |-> now,
                   dt |-> Min(delta, MAX_FRAME_TIME)]
  /\ tick' = tick + 1
  /\ UNCHANGED <<aircraft, weaponVars>>

NextDR == DRReceive \/ DRFrame

SpecDR == InitDR /\ [][NextDR]_vars

(***************************************************************************)
(* C5: while a remote player has had one sample and no more, after every   *)
(* update() its render position is the sample's position plus the sample's *)
(* velocity times min(T, MAX_EXTRAPOLATION), T being the time since the    *)
(* sample arrived; beyond MAX_EXTRAPOLATION it no longer advances.         *)
(***************************************************************************)
C5_SingleSampleExtrapolation ==
  last.op = "deadReckoningUpdate" =>
    \A id \in DOMAIN drPlayers :
      track[id].samples = 1 =>
        drPlayers[id].renderPosition =
          VAdd(track[id].sample.position,
               VScale(track[id].sample.velocity,
                      Min(now - track[id].at, MAX_EXTRAPOLATION), 1000))

\* an update() later than MAX_EXTRAPOLATION after the only sample of a moving
\* player, which left the render position where the extrapolation ends
C5_Witness ==
  /\ last.op = "deadReckoningUpdate"
  /\ \E id \in DOMAIN drPlayers :
       /\ track[id].samples = 1
       /\ now - track[id].at > MAX_EXTRAPOLATION
       /\ track[id].sample.velocity # ZERO3
       /\ drPlayers[id].renderPosition =
            VAdd(track[id].sample.position,
                 VScale(track[id].sample.velocity, MAX_EXTRAPOLATION, 1000))

(***************************************************************************)
(* C6, as amended: a sample whose prediction error exceeds SNAP_THRESHOLD  *)
(* leaves, when receiveUpdate returns, the render position equal to the    *)
(* sample's position and the correction offset and alpha zero; on every    *)
(* update() that follows before another sample, offset and alpha are still *)
(* zero and the render position is the sample's position extrapolated by   *)
(* the sample's velocity over min(now - timestamp, MAX_EXTRAPOLATION).     *)
(***************************************************************************)
C6_SnapThenExtrapolate ==
  \A id \in DOMAIN drPlayers :
    track[id].error > SNAP_THRESHOLD =>
      /\ drPlayers[id].correctionOffset = ZERO3
      /\ drPlayers[id].correctionAlpha = 0
      /\ (last.op = "receiveUpdate" /\ last.id = id) =>
           drPlayers[id].renderPosition = track[id].sample.position
      /\ last.op = "deadReckoningUpdate" =>
           drPlayers[id].renderPosition =
             VAdd(track[id].sample.position,
                  VScale(track[id].sample.velocity,
                         Min(now - track[id].sample.timestamp, MAX_EXTRAPOLATION), 1000))

\* the first update() after a snap, which moved the render position off the
\* sample's position
C6_Witness ==
  /\ last.op = "deadReckoningUpdate"
  /\ \E id \in DOMAIN drPlayers :
       /\ track[id].error > SNAP_THRESHOLD
       /\ track[id].updated = last.dt
       /\ last.before[id].renderPosition = track[id].sample.position
       /\ drPlayers[id].renderPosition # track[id].sample.position

\* C6 as stated: on the first update() after a sample whose prediction error
\* exceeds SNAP_THRESHOLD, the render position equals the sample's position
\* and the correction offset and alpha are zero.
C6_SnapRendersSample ==
  last.op = "deadReckoningUpdate" =>
    \A id \in DOMAIN drPlayers :
      (track[id].error > SNAP_THRESHOLD /\ track[id].updated = last.dt) =>
        /\ drPlayers[id].correctionOffset = ZERO3
        /\ drPlayers[id].correctionAlpha = 0
        /\ drPlayers[id].renderPosition = track[id].sample.position

(***************************************************************************)
(* C7: after a sample whose prediction error is at most SNAP_THRESHOLD,    *)
(* and until another sample arrives, the distance between the render       *)
(* position and the extrapolated confirmed position does not grow from one *)
(* update() to the next, and it is zero once the dt of the update() calls  *)
(* since the sample add up to CORRECTION_DURATION.                         *)
(***************************************************************************)
Gap(player, clock) ==
  Magnitude(VSub(player.renderPosition,
                 extrapolatePosition(player.confirmedPosition, player.confirmedVelocity,
                                     Min(clock - player.confirmedTimestamp, MAX_EXTRAPOLATION))))

C7_BlendGapShrinks ==
  last.op = "deadReckoningUpdate" =>
    \A id \in DOMAIN drPlayers :
      (track[id].error >= 0 /\ track[id].error <= SNAP_THRESHOLD) =>
        /\ track[id].updated > last.dt =>
             Gap(drPlayers[id], now) <= Gap(last.before[id], last.clock)
        /\ track[id].updated >= CORRECTION_DURATION => Gap(drPlayers[id], now) = 0

\* the update() that completes CORRECTION_DURATION after a blended sample and
\* closes a gap the update() before it had left open
C7_Witness ==
  /\ last.op = "deadReckoningUpdate"
  /\ \E id \in DOMAIN drPlayers :
       /\ track[id].error >= 0 /\ track[id].error <= SNAP_THRESHOLD
       /\ track[id].updated > last.dt
       /\ track[id].updated >= CORRECTION_DURATION
       /\ track[id].updated - last.dt < CORRECTION_DURATION
       /\ Gap(last.before[id], last.clock) > 0
       /\ Gap(drPlayers[id], now) = 0


(***************************************************************************)
(* SpecWeapons: the weapon steps of the game loop, frame after frame, on   *)
(* registries that hold projectiles in flight: updateMissiles,             *)
(* updateBullets, then checkCollisions' two passes.  Death and spawn       *)
(* messages of remote players arrive between frames.                       *)
(***************************************************************************)
MaxWeaponFrames == 3

\* gameStore.playerId; the local player is not in the players registry
LOCAL_ID == "me"

WEAPONS_ORIGIN == SPAWN_POINTS[1].position

\* Date.now() when the first frame starts, ms
WEAPONS_START == 20000

Remote(id, offset) ==
  [id |-> id, position |-> VAdd(WEAPONS_ORIGIN, offset), velocity |-> ZERO3, isAlive |-> TRUE]

\* three remote players, in the order they joined: two 30 m apart and a
\* third 2 km away
RemotePlayers ==
  <<Remote("p1", ZERO3), Remote("p2", <<3000, 0, 0>>), Remote("p3", <<200000, 0, 0>>)>>

Missile(id, ownerId, offset, velocity, targetId, age) ==
  [id |-> id, ownerId |-> ownerId, position |-> VAdd(WEAPONS_ORIGIN, offset),
   velocity |-> velocity, targetId |-> targetId, createdAt |-> WEAPONS_START - age]

Bullet(id, ownerId, offset, velocity, age) ==
  [id |-> id, ownerId |-> ownerId, position |-> VAdd(WEAPONS_ORIGIN, offset),
   velocity |-> velocity, createdAt |-> WEAPONS_START - age]

\* missiles in flight: unguided ones about to pass p1 and p2, fired by the
\* local player and by p1 and p2; missiles locked on p3 from 1 km away, flying
\* along, across and away from the line of sight; a missile whose target has left
MissileScenes ==
  { <<Missile("m1", LOCAL_ID, <<-500, 0, 0>>, <<MISSILE_SPEED, 0, 0>>, NoTarget, 100),
      Missile("m2", "p1", <<0, -1860, 0>>, <<0, MISSILE_SPEED, 0>>, NoTarget, 100),
      Missile("m3", "p2", <<-2000, 1000, 0>>, <<MISSILE_SPEED, 0, 0>>, NoTarget, 9940)>>,
    <<Missile("h1", LOCAL_ID, <<100000, 0, 0>>, <<MISSILE_SPEED, 0, 0>>, "p3", 100),
      Missile("h2", LOCAL_ID, <<100000, 0, 0>>, <<24000, 32000, 0>>, "p3", 2100),
      Missile("h3", "p1", <<100000, 0, 0>>, <<0, MISSILE_SPEED, 0>>, "p3", 100)>>,
    <<Missile("h4", LOCAL_ID, <<100000, 0, 0>>, <<-MISSILE_SPEED, 0, 0>>, "p3", 100),
      Missile("h5", "p2", <<100000, 0, 0>>, <<-24000, 0, 32000>>, "p3", 100),
      Missile("h6", LOCAL_ID, <<100000, 0, 0>>, <<0, 0, MISSILE_SPEED>>, "p9", 100)>> }

\* bullets in flight, about to pass p1 and p2
BulletScenes ==
  { <<>>,
    <<Bullet("b1", LOCAL_ID, <<-2000, 500, 0>>, <<GUN_SPEED, 0, 0>>, 20),
      Bullet("b2", "p2", <<-5000, -300, 0>>, <<GUN_SPEED, 0, 0>>, 20),
      Bullet("b3", "p1", <<0, -5300, 0>>, <<0, GUN_SPEED, 0>>, 1440)>> }

InitWeapons ==
  /\ aircraft = createInitialState(SPAWN_POINTS[1].position, SPAWN_POINTS[1].heading)
  /\ last = NoCall
  /\ tick = 0
  /\ now = WEAPONS_START
  /\ drPlayers = <<>>
  /\ track = <<>>
  /\ missiles \in MissileScenes
  /\ bullets \in BulletScenes
  /\ players = RemotePlayers
  /\ game = NoGame

\* no frame is under way
BetweenFrames == last.op \in {"none", "checkBulletCollisions", "onDeath", "onSpawn"}

\* networking.onDeath: victim.isAlive = false
OnDeath ==
  /\ BetweenFrames
  /\ \E k \in 1..Len(players) :
       /\ players[k].isAlive
       /\ players' = [players EXCEPT ![k].isAlive = FALSE]
       /\ last' = [op |-> "onDeath", id |-> players[k].id]
  /\ UNCHANGED <<aircraft, tick, drVars, missiles, bullets, game>>

\* networking.onSpawn: player.isAlive = true, player.position = msg.p
OnSpawn ==
  /\ BetweenFrames
  /\ \E k \in 1..Len(players) :
       /\ ~players[k].isAlive
       /\ players' = [players EXCEPT ![k].isAlive = TRUE,
                                     ![k].position = RemotePlayers[k].position]
       /\ last' = [op |-> "onSpawn", id |-> players[k].id]
  /\ UNCHANGED <<aircraft, tick, drVars, missiles, bullets, game>>

\* gameLoop: weapons.updateMissiles(players.value, dt)
UpdateMissiles ==
  /\ BetweenFrames
  /\ tick < MaxWeaponFrames
  /\ \E delta \in FrameDeltas :
       /\ now' = now + delta
       /\ missiles' = updateMissiles(missiles, players, now + delta, Min(delta, MAX_FRAME_TIME))
       /\ last' = [op |-> "updateMissiles", before |-> missiles,
                   dt |-> Min(delta, MAX_FRAME_TIME)]
  /\ tick' = tick + 1
  /\ UNCHANGED <<aircraft, drPlayers, track, bullets, players, game>>

\* gameLoop: weapons.updateBullets(dt)
UpdateBullets ==
  /\ last.op = "updateMissiles"
  /\ bullets' = updateBullets(bullets, now, last.dt)
  /\ last' = [op |-> "updateBullets", before |-> bullets, dt |-> last.dt]
  /\ UNCHANGED <<aircraft, tick, drVars, missiles, players, game>>

\* checkCollisions: weapons.checkMissileCollisions(players.value)
CheckMissileCollisions ==
  /\ last.op = "updateBullets"
  /\ \E result \in {checkMissileCollisions(missiles, players)} :
       /\ missiles' = result.registry
       /\ last' = [op |-> "checkMissileCollisions", before |-> missiles,
                   hits |-> result.hits,
                   radius |-> COLLISION_AIRCRAFT + PROXIMITY_FUSE]
  /\ UNCHANGED <<aircraft, tick, drVars, bullets, players, game>>

\* checkCollisions: weapons.checkBulletCollisions(players.value)
CheckBulletCollisions ==
  /\ last.op = "checkMissileCollisions"
  /\ \E result \in {checkBulletCollisions(bullets, players)} :
       /\ bullets' = result.registry
       /\ last' = [op |-> "checkBulletCollisions", before |-> bullets,
                   hits |-> result.hits,
                   radius |-> COLLISION_AIRCRAFT + COLLISION_BULLET]
  /\ UNCHANGED <<aircraft, tick, drVars, missiles, players, game>>

NextWeapons ==
  \/ OnDeath
  \/ OnSpawn
  \/ UpdateMissiles
  \/ UpdateBullets
  \/ CheckMissileCollisions
  \/ CheckBulletCollisions

SpecWeapons == InitWeapons /\ [][NextWeapons]_vars


(***************************************************************************)
(* C8: in every checkMissileCollisions / checkBulletCollisions pass, each  *)
(* projectile yields at most one hit; a hit is reported exactly when some  *)
(* alive player other than the projectile's owner is within the collision  *)
(* radius, it names the first such player in iteration order, and the      *)
(* projectile is removed from the registry; no hit names the projectile's  *)
(* owner or a dead player; a projectile with no qualifying target stays in *)
(* the registry.                                                           *)
(***************************************************************************)
Qualifies(projectile, player, radius) ==
  /\ player.id # projectile.ownerId
  /\ player.isAlive
  /\ DistanceBelow(projectile.position, player.position, radius)

HitsOf(projectile, hits) == {h \in 1..Len(hits) : hits[h].projectileId = projectile.id}

\* what a pass owes one projectile of the registry it was given
Settled(projectile, registry, hits, radius) ==
  /\ Cardinality(HitsOf(projectile, hits)) <= 1
  /\ (HitsOf(projectile, hits) # {})
       <=> (\E j \in 1..Len(players) : Qualifies(projectile, players[j], radius))
  /\ \A h \in HitsOf(projectile, hits) :
       /\ hits[h].ownerId = projectile.ownerId
       /\ hits[h].playerId # projectile.ownerId
       /\ \E j \in 1..Len(players) :
            /\ players[j].id = hits[h].playerId
            /\ players[j].isAlive
            /\ Qualifies(projectile, players[j], radius)
            /\ \A i \in 1..(j - 1) : ~Qualifies(projectile, players[i], radius)
  /\ (HitsOf(projectile, hits) # {}) <=> (\A k \in 1..Len(registry) : registry[k].id # projectile.id)
  /\ (HitsOf(projectile, hits) = {}) => (\E k \in 1..Len(registry) : registry[k] = projectile)

PassSettled(before, registry, hits, radius) ==
  /\ \A k \in 1..Len(before) : Settled(before[k], registry, hits, radius)
  /\ \A h \in 1..Len(hits) : \E k \in 1..Len(before) : before[k].id = hits[h].projectileId
  /\ \A k \in 1..Len(registry) : \E j \in 1..Len(before) : before[j] = registry[k]

C8_OneHitFirstTarget ==
  /\ last.op = "checkMissileCollisions" => PassSettled(last.before, missiles, last.hits, last.radius)
  /\ last.op = "checkBulletCollisions" => PassSettled(last.before, bullets, last.hits, last.radius)

\* a missile pass in which one missile was in range of two alive players other
\* than its owner and hit the first of them, and another missile was in range
\* of its owner and of nobody else and stayed in the registry
C8_Witness ==
  /\ last.op = "checkMissileCollisions"
  /\ \E h \in 1..Len(last.hits), k \in 1..Len(last.before) :
       /\ last.before[k].id = last.hits[h].projectileId
       /\ Qualifies(last.before[k], players[1], last.radius)
       /\ Qualifies(last.before[k], players[2], last.radius)
       /\ last.hits[h].playerId = players[1].id
  /\ \E k \in 1..Len(missiles) :
       /\ IndexOf(players, missiles[k].ownerId) # 0
       /\ DistanceBelow(missiles[k].position,
                        players[IndexOf(players, missiles[k].ownerId)].position, last.radius)


(***************************************************************************)
(* SpecArena: the local player's part of the game loop, tick after tick:   *)
(* FlightModel.update, enforceArenaBounds, enforceAltitudeLimits, for an   *)
(* aircraft that has flown to the edge of the arena, to the floor or to    *)
(* the ceiling.                                                            *)
(***************************************************************************)
\* the position at an offset <<east, north, up>> (cm) from the arena's centre
ArenaPoint(offset) == VAdd(ARENA_CENTER, EnuToEcef(Regions[1].frame, offset))

\* level flight at cruise speed
Flying(offset, heading) == createInitialState(ArenaPoint(offset), heading)

\* straight up or down
Vertical(state, climb) ==
  [state EXCEPT !.velocity = EnuToEcef(EnuFrame(state.position), <<0, 0, climb>>)]

\* 10 m inside the radius at 3 km of altitude, heading out to the east and to
\* the south; the same just under the ceiling, fast; in the outer tenth,
\* heading in; over the centre, diving at the floor and climbing at the
\* ceiling; a spawn point
ArenaStates ==
  { Flying(<<4998300, 0, 80400>>, 90),
    Flying(<<0, -4998300, 80400>>, 180),
    Faster(Flying(<<4832500, 0, 1279400>>, 90), ONE),
    Flying(<<4600000, 0, 83000>>, 270),
    Vertical(Flying(<<0, 0, -189900>>, 0), -CRUISE_SPEED),
    Vertical(Flying(<<0, 0, 1299900>>, 0), CRUISE_SPEED),
    createInitialState(SPAWN_POINTS[3].position, SPAWN_POINTS[3].heading) }

InitArena ==
  /\ aircraft \in ArenaStates
  /\ last = NoCall
  /\ tick = 0
  /\ DRIdle
  /\ WeaponsIdle

\* gameLoop: FlightModel.update(aircraftState, inputState, dt)
ArenaUpdate ==
  /\ last.op \in {"none", "enforceAltitudeLimits"}
  /\ FlightUpdate

\* gameLoop: enforceArenaBounds()
EnforceArenaBounds ==
  /\ last.op = "update"
  /\ \E distance \in {DistanceFromCenter(aircraft.position)} :
       aircraft' = enforceArenaBounds(aircraft, distance)
  /\ last' = [op |-> "enforceArenaBounds", state |-> aircraft]
  /\ UNCHANGED <<tick, drVars, weaponVars>>

\* gameLoop: enforceAltitudeLimits()
EnforceAltitudeLimits ==
  /\ last.op = "enforceArenaBounds"
  /\ \E altitude \in {Altitude(aircraft.position)} :
       aircraft' = enforceAltitudeLimits(aircraft, altitude)
  /\ last' = [op |-> "enforceAltitudeLimits", state |-> aircraft]
  /\ UNCHANGED <<tick, drVars, weaponVars>>

NextArena == ArenaUpdate \/ EnforceArenaBounds \/ EnforceAltitudeLimits

SpecArena == InitArena /\ [][NextArena]_vars

(***************************************************************************)
(* C9: whenever the aircraft's distance from the arena centre exceeds      *)
(* ARENA.RADIUS at boundary enforcement, its position after enforcement is *)
(* at distance 0.95 * ARENA.RADIUS from the centre (to within 4 millionths *)
(* of the radius, the resolution of the arithmetic), and at the end of     *)
(* every tick the aircraft is within the arena radius.                     *)
(***************************************************************************)
C9_TeleportInsideArena ==
  /\ (last.op = "enforceArenaBounds" /\ DistanceFromCenter(last.state.position) > ARENA_RADIUS)
       => Abs(DistanceFromCenter(aircraft.position) - MulDiv(ARENA_RADIUS, TELEPORT_FRACTION, ONE))
            <= ARENA_RADIUS \div 250000
  /\ last.op = "enforceAltitudeLimits" => DistanceFromCenter(aircraft.position) <= ARENA_RADIUS

\* the end of a tick in which the update took the aircraft out of the arena,
\* enforceArenaBounds put it back and enforceAltitudeLimits then moved it again
C9_Witness ==
  /\ last.op = "enforceAltitudeLimits"
  /\ aircraft.position # last.state.position
  /\ DistanceFromCenter(last.state.position) >= MulDiv(ARENA_RADIUS, TELEPORT_FRACTION, ONE) - 20
  /\ DistanceFromCenter(last.state.position) <= MulDiv(ARENA_RADIUS, TELEPORT_FRACTION, ONE)
  /\ DistanceFromCenter(aircraft.position) < DistanceFromCenter(last.state.position)


(***************************************************************************)
(* C18.  receiveUpdate for an id without a predictor creates one whose     *)
(* confirmed position, orientation, velocity and timestamp are the         *)
(* sample's, whose render position and orientation are the sample's and    *)
(* whose correction offset and alpha are zero; for an id with a predictor  *)
(* it overwrites the confirmed position, orientation, velocity and         *)
(* timestamp with the sample's, whether it snaps or blends.                *)
(***************************************************************************)
C18_ConfirmedIsSample ==
  last.op = "receiveUpdate" =>
    /\ drPlayers[last.id].confirmedPosition = track[last.id].sample.position
    /\ drPlayers[last.id].confirmedOrientation = track[last.id].sample.orientation
    /\ drPlayers[last.id].confirmedVelocity = track[last.id].sample.velocity
    /\ drPlayers[last.id].confirmedTimestamp = track[last.id].sample.timestamp
    /\ last.id \notin DOMAIN last.before =>
         /\ drPlayers[last.id].renderPosition = track[last.id].sample.position
         /\ drPlayers[last.id].renderOrientation = track[last.id].sample.orientation
         /\ drPlayers[last.id].correctionOffset = ZERO3
         /\ drPlayers[last.id].correctionAlpha = 0

\* the first sample of a player, sent 40 ms before it arrived: the predictor
\* is stamped with the time of arrival
C18_StampedWithArrival ==
  /\ last.op = "receiveUpdate"
  /\ last.id \notin DOMAIN last.before
  /\ track[last.id].sample.timestamp < now
  /\ drPlayers[last.id].confirmedTimestamp = now

(***************************************************************************)
(* C17.  At the end of every tick the aircraft's speed field is the        *)
(* magnitude of its velocity (to within 10 cm/s, the resolution of the     *)
(* arithmetic), also when the soft boundary or the altitude floor changed  *)
(* the velocity after the integration.                                     *)
(***************************************************************************)
C17_SpeedIsVelocityMagnitude ==
  last.op = "enforceAltitudeLimits" =>
    Abs(aircraft.speed - Magnitude(aircraft.velocity)) <= 10

\* the end of a tick in which the floor zeroed the velocity's z and left the
\* speed field more than 10 m/s above the velocity's magnitude
C17_StaleSpeedAtFloor ==
  /\ last.op = "enforceAltitudeLimits"
  /\ Altitude(last.state.position) < MIN_ALTITUDE
  /\ last.state.velocity[3] < 0
  /\ aircraft.velocity[3] = 0
  /\ aircraft.speed = last.state.speed
  /\ aircraft.speed - Magnitude(aircraft.velocity) > 1000

\* the vertical component of a velocity at a position: along the local up
Climb(position, velocity) == EcefToEnu(EnuFrame(position), velocity)[3]

(***************************************************************************)
(* C19.  An aircraft found below MIN_ALTITUDE by enforceAltitudeLimits is  *)
(* afterwards at altitude MIN_ALTITUDE + 50 m over the same point of the   *)
(* ground (both to within 1 m) and its velocity has no component along the *)
(* local down axis (to within 10 cm/s); an aircraft found above            *)
(* MAX_ALTITUDE is afterwards at MAX_ALTITUDE - 50 m over the same point,  *)
(* with the velocity it had.                                               *)
(***************************************************************************)
C19_AltitudeLimits ==
  last.op = "enforceAltitudeLimits" =>
    /\ Altitude(last.state.position) < MIN_ALTITUDE =>
         /\ Abs(Altitude(aircraft.position) - (MIN_ALTITUDE + ALTITUDE_MARGIN)) <= 100
         /\ Abs(EcefToEnu(EnuFrame(last.state.position),
                          VSub(aircraft.position, last.state.position))[1]) <= 100
         /\ Abs(EcefToEnu(EnuFrame(last.state.position),
                          VSub(aircraft.position, last.state.position))[2]) <= 100
         /\ Climb(aircraft.position, aircraft.velocity) >= -10
    /\ Altitude(last.state.position) > MAX_ALTITUDE =>
         /\ Abs(Altitude(aircraft.position) - (MAX_ALTITUDE - ALTITUDE_MARGIN)) <= 100
         /\ Abs(EcefToEnu(EnuFrame(last.state.position),
                          VSub(aircraft.position, last.state.position))[1]) <= 100
         /\ Abs(EcefToEnu(EnuFrame(last.state.position),
                          VSub(aircraft.position, last.state.position))[2]) <= 100
         /\ aircraft.velocity = last.state.velocity

\* an aircraft put back above the floor that still descends at more than
\* 100 m/s: only the z of its ECEF velocity was zeroed
C19_StillDescending ==
  /\ last.op = "enforceAltitudeLimits"
  /\ Altitude(last.state.position) < MIN_ALTITUDE
  /\ aircraft.velocity[3] = 0
  /\ Climb(aircraft.position, aircraft.velocity) < -10000

(***************************************************************************)
(* C10.  For a missile of the registry given to updateMissiles that is     *)
(* locked on an alive target: a is its direction of flight before the      *)
(* call, b the line of sight to the target from where it was, n its        *)
(* direction of flight after the call, and t = min(TURN_RATE * dt, 1).     *)
(* Angles are compared through their cosines (dot products, in ppm).       *)
(***************************************************************************)
\* is entry k of the registry given to the last updateMissiles guided by it?
Homing(k) ==
  /\ now - last.before[k].createdAt <= MISSILE_LIFETIME
  /\ Tracks(last.before[k], players, IndexOf(players, last.before[k].targetId))

LineOfSight(missile) ==
  Normalize(VSub(players[IndexOf(players, missile.targetId)].position, missile.position))

\* the velocity the last updateMissiles left the missile with
GuidedVelocity(missile) == missiles[IndexOf(missiles, missile.id)].velocity

\* the speed after guidance is MISSILE.SPEED (to within 2 cm/s)
AtMissileSpeed(velocity) ==
  /\ Magnitude(velocity) <= MISSILE_SPEED
  /\ Magnitude(velocity) >= MISSILE_SPEED - 2

\* n is not beyond b, seen from a: its part across b is on a's side
NotPast(a, b, n) == DotUnit(n, a) - MulDiv(DotUnit(n, b), DotUnit(a, b), ONE) >= -3

\* the sine of the angle between a and n, |a x n|, is at most ratio (ppm), the
\* angle acute
SineAtMost(a, n, ratio) ==
  /\ DotUnit(n, a) > 0
  /\ Magnitude(CrossUnit(a, n)) <= ratio

(***************************************************************************)
(* C10, as amended: each updateMissiles tick leaves the angle between the  *)
(* missile's direction and the line of sight no larger, strictly smaller   *)
(* when it was strictly between 0 and 180 degrees, and unchanged when the  *)
(* missile flew straight at or straight away from the target; it never     *)
(* rotates the velocity past the line of sight; the rotation is at most    *)
(* asin(t / (1 - t)), which is more than TURN_RATE * dt; the speed after    *)
(* guidance is MISSILE.SPEED.  (Sines are compared to within 100 ppm, the  *)
(* resolution of the direction of a velocity held in whole cm/s.)          *)
(***************************************************************************)
Blend(a, b, n, velocity, t) ==
  /\ AtMissileSpeed(velocity)
  /\ DotUnit(n, b) >= DotUnit(a, b) - 2
  /\ (DotUnit(a, b) > 100 - ONE /\ DotUnit(a, b) < ONE - 100) => DotUnit(n, b) > DotUnit(a, b)
  /\ (DotUnit(a, b) = -ONE \/ DotUnit(a, b) = ONE) => n = a
  /\ NotPast(a, b, n)
  /\ SineAtMost(a, n, MulDiv(t, ONE, ONE - t) + 4 * (ONE \div MISSILE_SPEED))

TurnWithinRate(a, b, n, velocity, t) ==
  /\ AtMissileSpeed(velocity)
  /\ DotUnit(a, b) < ONE - 100 => DotUnit(n, b) > DotUnit(a, b)
  /\ DotUnit(n, a) >= Cos(t) - 100
  /\ NotPast(a, b, n)

MaxSessionTime == 2000

\* the network messages and presence events handled in a session
MaxMessages == 2

\* the frames run in a session
MaxSessionFrames == 2

SESSION_START == 20000

\* how long the event loop may stay idle in one step, ms
IdleTimes == {1000}

\* gameStore.playerId
PLAYER_ID == "me"

\* the peers of the session: p1 has joined before it starts, p2 has not
SessionPeers == {"p1", "p2"}

NeutralInput == [pitch |-> 0, roll |-> 0, yaw |-> 0, throttleUp |-> FALSE, throttleDown |-> FALSE]

\* a Player record of the registry
Peer(id, position, orientation, velocity, isAlive) ==
  [id |-> id, position |-> position, orientation |-> orientation, velocity |-> velocity,
   isAlive |-> isAlive]

SessionPlayers ==
  << Peer("p1", VAdd(SPAWN_POINTS[1].position, <<0, 0, -100000>>), <<0, 0, 0, ONE>>,
          <<20000, 0, 0>>, TRUE) >>

\* the component's refs and the stores' fields after spawnPlayer()
Spawned ==
  [phase |-> "idle", isAlive |-> TRUE, respawnTimer |-> 0, health |-> 100, ammo |-> 6,
   countdowns |-> <<>>, lastTime |-> SESSION_START, dt |-> 0, lastMissileTime |-> 0,
   missilePressed |-> FALSE, generated |-> 0, channel |-> "subscribed", mounted |-> TRUE,
   messages |-> 0, deathsBroadcast |-> 0, respawns |-> 0, deaths |-> 0, shots |-> 0,
   launchedAt |-> [owner \in {PLAYER_ID} \cup SessionPeers |-> 0],
   horizon |-> SESSION_START + MaxSessionTime, idle |-> IdleTimes, diedAt |-> 0]

\* what is in flight when the session starts: nothing, or a missile that a
\* fire message of p1 launched 9.5 s ago and a bullet
SessionScenes ==
  { [launched |-> 0, missiles |-> <<>>, bullets |-> <<>>],
    [launched |-> SESSION_START - 9500,
     missiles |-> << [id |-> "m0", ownerId |-> "p1",
                      position |-> VAdd(SPAWN_POINTS[1].position, <<0, 500000, 0>>),
                      velocity |-> <<MISSILE_SPEED, 0, 0>>, targetId |-> NoTarget,
                      createdAt |-> SESSION_START - 9500] >>,
     bullets |-> << [id |-> "b0", ownerId |-> "p1",
                     position |-> VAdd(SPAWN_POINTS[1].position, <<0, 500000, 0>>),
                     velocity |-> <<GUN_SPEED, 0, 0>>, createdAt |-> SESSION_START] >>] }

InitSession ==
  /\ aircraft = createInitialState(SPAWN_POINTS[1].position, SPAWN_POINTS[1].heading)
  /\ last = NoCall
  /\ tick = 0
  /\ now = SESSION_START
  /\ drPlayers = <<>>
  /\ track = <<>>
  /\ \E scene \in SessionScenes :
       /\ missiles = scene.missiles
       /\ bullets = scene.bullets
       /\ game = [Spawned EXCEPT !.lastMissileTime = scene.launched,
                                 !.launchedAt["p1"] = scene.launched]
  /\ players = SessionPlayers

Idle == game.phase = "idle"

\* the next id of generateId(): ids are told apart by the order they are
\* generated in
NextId == "g" \o ToString(game.generated + 1)

\* time passes with the event loop idle; a countdown that is due runs first
Elapse ==
  /\ Idle
  /\ \E d \in game.idle :
       /\ now + d <= game.horizon
       /\ \A k \in 1..Len(game.countdowns) : now + d <= game.countdowns[k]
       /\ now' = now + d
  /\ last' = [op |-> "elapse"]
  /\ UNCHANGED <<aircraft, tick, drPlayers, track, missiles, bullets, players, game>>


\* the fire messages of the session: a missile or a gun burst, from a peer
FireMessage(id, w, target) ==
  [id |-> id, w |-> w, p |-> VAdd(SPAWN_POINTS[1].position, <<0, 300000, 0>>), target |-> target]

FireMessages ==
  { FireMessage("p1", "m", PLAYER_ID), FireMessage("p1", "g", NoTarget),
    FireMessage("p2", "m", NoTarget) }

\* the AircraftState networking.onFire hands to fireMissile
FiringState(msg, player) ==
  [position |-> msg.p, orientation |-> player.orientation, velocity |-> player.velocity,
   angularVelocity |-> ZERO3, throttle |-> 0, speed |-> 0]

\* a network message can be delivered
Delivering ==
  /\ Idle
  /\ game.channel # "closed"
  /\ game.messages < MaxMessages

NotLaunched == [missile |-> NoMissile, missiles |-> missiles, lastMissileTime |-> game.lastMissileTime]

\* networking.onFire
NetFire ==
  /\ Delivering
  /\ \E msg \in FireMessages :
     \E launch \in {IF IndexOf(players, msg.id) # 0 /\ msg.w = "m"
                    THEN fireMissile(missiles, game.lastMissileTime, msg.id,
                                     FiringState(msg, players[IndexOf(players, msg.id)]),
                                     msg.target, now, NextId)
                    ELSE NotLaunched} :
       /\ missiles' = launch.missiles
       /\ game' = [game EXCEPT !.lastMissileTime = launch.lastMissileTime,
                               !.generated = IF launch.missile = NoMissile THEN @ ELSE @ + 1,
                               !.launchedAt = IF launch.missile = NoMissile THEN @
                                              ELSE [@ EXCEPT ![msg.id] = now],
                               !.messages = @ + 1]
       /\ last' = [op |-> "onFire", ownerId |-> msg.id,
                   fire |-> IndexOf(players, msg.id) # 0 /\ msg.w = "m",
                   before |-> missiles, launchedAt |-> game.launchedAt[msg.id],
                   missile |-> launch.missile, after |-> launch.missiles]
  /\ UNCHANGED <<aircraft, tick, now, drPlayers, track, bullets, players>>

\* gameLoop when the local player is alive, as far as FlightModel.update
GameLoopAlive ==
  /\ Idle
  /\ game.mounted
  /\ game.isAlive
  /\ tick < MaxSessionFrames
  /\ now > game.lastTime
  /\ update(aircraft, NeutralInput, Min(now - game.lastTime, MAX_FRAME_TIME))
  /\ game' = [game EXCEPT !.phase = "enforceArenaBounds", !.lastTime = now,
                          !.dt = Min(now - game.lastTime, MAX_FRAME_TIME)]
  /\ last' = [op |-> "update", state |-> aircraft]
  /\ UNCHANGED <<tick, now, drPlayers, track, missiles, bullets, players>>

\* input.checkMissileFire() && gameStore.missiles > 0
MissileFire(space) == space /\ ~game.missilePressed /\ game.ammo > 0

\* A frame that fires from where the aircraft was when the frame began.
WeaponStateBefore(before, constrained) == before

\* the aircraftState handleWeaponInput reads: the frame's, integrated and
\* constrained, not the one the frame began with
WeaponState(before, constrained) == constrained

\* gameLoop when the local player is alive, after FlightModel.update:
\* enforceArenaBounds, enforceAltitudeLimits, handleWeaponInput,
\* updateMissiles, updateBullets, checkCollisions, broadcastPosition, and
\* then, as in every frame, deadReckoning.update and the refresh of the
\* remote aircraft.  (updateHUDValues and updateVisuals change nothing
\* here; last.broadcast is the position handed to broadcastPosition.)
GameLoopRest ==
  /\ game.phase = "enforceArenaBounds"
  /\ \E distance \in {DistanceFromCenter(aircraft.position)} :
     \E bounded \in {enforceArenaBounds(aircraft, distance)} :
     \E altitude \in {Altitude(bounded.position)} :
     \E limited \in {enforceAltitudeLimits(bounded, altitude)} :
     \E space \in BOOLEAN :
     \E armed \in {WeaponState(last.state, limited)} :
     \E lockedTarget \in {IF MissileFire(space)
                          THEN findLockOnTarget(armed, PLAYER_ID, players) ELSE NoTarget} :
     \E launch \in {IF MissileFire(space)
                    THEN fireMissile(missiles, game.lastMissileTime, PLAYER_ID, armed,
                                     lockedTarget, now, NextId)
                    ELSE NotLaunched} :
     \E flown \in {updateMissiles(launch.missiles, players, now, game.dt)} :
     \E missileHits \in {checkMissileCollisions(flown, players)} :
     \E shells \in {updateBullets(bullets, now, game.dt)} :
     \E bulletHits \in {checkBulletCollisions(shells, players)} :
       /\ aircraft' = limited
       /\ missiles' = missileHits.registry
       /\ bullets' = bulletHits.registry
       /\ drPlayers' = deadReckoningUpdate(drPlayers, now, game.dt)
       /\ game' = [game EXCEPT !.phase = "idle",
                               !.missilePressed = space,
                               !.ammo = IF MissileFire(space) THEN @ - 1 ELSE @,
                               !.lastMissileTime = launch.lastMissileTime,
                               !.generated = IF launch.missile = NoMissile THEN @ ELSE @ + 1,
                               !.shots = IF launch.missile = NoMissile THEN @ ELSE @ + 1,
                               !.launchedAt = IF launch.missile = NoMissile THEN @
                                              ELSE [@ EXCEPT ![PLAYER_ID] = now]]
       /\ last' = [op |-> "gameLoop", alive |-> TRUE, ownerId |-> PLAYER_ID,
                   aircraft |-> last.state, integrated |-> aircraft, dt |-> game.dt,
                   ammo |-> game.ammo,
                   hits |-> missileHits.hits, broadcast |-> limited.position,
                   fire |-> MissileFire(space), before |-> missiles,
                   launchedAt |-> game.launchedAt[PLAYER_ID],
                   missile |-> launch.missile, after |-> launch.missiles,
                   bullets |-> bullets, drPlayers |-> drPlayers,
                   refreshed |-> {players[k].id : k \in 1..Len(players)} \cap DOMAIN drPlayers]
  /\ tick' = tick + 1
  /\ UNCHANGED <<now, track, players>>

\* Map.set(player.id, player): a new key goes last, a known key keeps its place
SetPlayer(registry, player) ==
  IF IndexOf(registry, player.id) = 0 THEN Append(registry, player)
  ELSE [registry EXCEPT ![IndexOf(registry, player.id)] = player]

\* Map.delete(id)
RECURSIVE DeleteFrom(_, _, _)
DeleteFrom(registry, id, k) ==
  IF k > Len(registry) THEN <<>>
  ELSE IF registry[k].id = id THEN DeleteFrom(registry, id, k + 1)
       ELSE <<registry[k]>> \o DeleteFrom(registry, id, k + 1)

\* useDeadReckoning's removePlayer
Untracked(predictors, id) == [other \in DOMAIN predictors \ {id} |-> predictors[other]]

\* useDeadReckoning's getRenderState
getRenderState(predictors, playerId) ==
  IF playerId \in DOMAIN predictors
  THEN [position |-> predictors[playerId].renderPosition,
        orientation |-> predictors[playerId].renderOrientation]
  ELSE NoTarget

\* no entry of the registry
NoPlayer == [id |-> "none"]

\* the spawn points Math.random() picks among for a player that joins
JoinSpawns == {2, 3}

\* presence join: networking.onPlayerJoin.  (new Cesium.Quaternion() and new
\* Cesium.Cartesian3() are all zeros.)
PresenceJoin ==
  /\ Delivering
  /\ \E id \in SessionPeers, k \in JoinSpawns :
       /\ players' = SetPlayer(players, Peer(id, SPAWN_POINTS[k].position, <<0, 0, 0, 0>>,
                                             ZERO3, TRUE))
       /\ last' = [op |-> "onPlayerJoin", id |-> id, known |-> IndexOf(players, id) # 0,
                   was |-> IF IndexOf(players, id) # 0 THEN players[IndexOf(players, id)]
                           ELSE NoPlayer]
  /\ game' = [game EXCEPT !.messages = @ + 1]
  /\ UNCHANGED <<aircraft, tick, now, drPlayers, track, missiles, bullets>>

\* presence leave: networking.onPlayerLeave, then players.delete(key)
PresenceLeave ==
  /\ Delivering
  /\ \E id \in SessionPeers :
       /\ players' = DeleteFrom(players, id, 1)
       /\ drPlayers' = Untracked(drPlayers, id)
       /\ last' = [op |-> "onPlayerLeave", id |-> id]
  /\ game' = [game EXCEPT !.messages = @ + 1]
  /\ UNCHANGED <<aircraft, tick, now, track, missiles, bullets>>

\* the position messages of the session: sent 40 ms before they arrive
SessionSamples ==
  { [position |-> VAdd(SPAWN_POINTS[1].position, <<1000, 300, 0>>),
     orientation |-> <<0, 0, 707107, 707107>>, velocity |-> <<20000, 0, 0>>, lag |-> 40] }

\* the Player record with the fields of a position message
Positioned(player, sample) ==
  [player EXCEPT !.position = sample.position, !.orientation = sample.orientation,
                 !.velocity = sample.velocity]

\* networking.onPositionUpdate
NetPosition ==
  /\ Delivering
  /\ \E id \in SessionPeers, template \in SessionSamples :
     \E sample \in {Stamped(template, now)} :
       /\ IF IndexOf(players, id) # 0
          THEN /\ players' = [players EXCEPT ![IndexOf(players, id)] = Positioned(@, sample)]
               /\ drPlayers' = receiveUpdate(drPlayers, id, sample, now)
          ELSE UNCHANGED <<players, drPlayers>>
       /\ last' = [op |-> "onPositionUpdate", id |-> id, sample |-> sample,
                   known |-> IndexOf(players, id) # 0]
  /\ game' = [game EXCEPT !.messages = @ + 1]
  /\ UNCHANGED <<aircraft, tick, now, track, missiles, bullets>>

\* the hit messages of the session: a missile or a bullet hits the local
\* player, a missile hits p1
HitMessages ==
  { [victim |-> PLAYER_ID, attacker |-> "p1", damage |-> 100, weapon |-> "m"],
    [victim |-> PLAYER_ID, attacker |-> "p1", damage |-> 10, weapon |-> "g"],
    [victim |-> "p1", attacker |-> "p2", damage |-> 100, weapon |-> "m"] }

\* GAME.RESPAWN_TIME / 1000
RESPAWN_SECONDS == 5

\* the period of the respawn countdown's setInterval, ms
COUNTDOWN_PERIOD == 1000

\* gameStore.takeDamage: the health left
takeDamage(health, amount) == Max(0, health - amount)

\* gameStore.die(): deaths++.  (The store's own isAlive and respawnTimer
\* are read by nothing here.)
storeDie(state) == [state EXCEPT !.deaths = @ + 1]

\* die(killerId, weapon): the refs it sets, gameStore.die(), the death it
\* broadcasts and the countdown it starts, due one period from now
die(state, clock) ==
  [storeDie(state) EXCEPT !.isAlive = FALSE,
                          !.respawnTimer = RESPAWN_SECONDS,
                          !.deathsBroadcast = @ + 1,
                          !.countdowns = Append(@, clock + COUNTDOWN_PERIOD)]

\* gameStore.takeDamage(amount) on the store: the health left, and die() at 0
Damaged(state, amount) ==
  IF takeDamage(state.health, amount) <= 0
  THEN storeDie([state EXCEPT !.health = takeDamage(state.health, amount)])
  ELSE [state EXCEPT !.health = takeDamage(state.health, amount)]

\* networking.onHit
NetHit ==
  /\ Delivering
  /\ \E msg \in HitMessages :
     \E health \in {IF msg.victim = PLAYER_ID THEN takeDamage(game.health, msg.damage)
                    ELSE game.health} :
     \E handled \in {[(IF msg.victim = PLAYER_ID THEN Damaged(game, msg.damage) ELSE game)
                         EXCEPT !.messages = @ + 1,
                                  !.diedAt = IF msg.victim = PLAYER_ID /\ health <= 0 /\ game.isAlive
                                             THEN now ELSE @]} :
       /\ game' = IF msg.victim = PLAYER_ID /\ health <= 0 THEN die(handled, now) ELSE handled
       /\ last' = [op |-> "onHit", msg |-> msg, wasAlive |-> game.isAlive, before |-> game,
                   died |-> msg.victim = PLAYER_ID /\ health <= 0]
  /\ UNCHANGED <<aircraft, tick, now, drPlayers, track, missiles, bullets, players>>

\* the spawn points Math.random() picks among in spawnPlayer
RespawnPoints == {1, 4}

\* spawnPlayer(): the refs and store fields it sets
spawnPlayer(state) ==
  [state EXCEPT !.isAlive = TRUE, !.health = 100, !.ammo = 6, !.respawns = @ + 1,
                !.shots = 0]

\* the countdown without entry k
RECURSIVE Cleared(_, _, _)
Cleared(countdowns, k, j) ==
  IF j > Len(countdowns) THEN <<>>
  ELSE IF j = k THEN Cleared(countdowns, k, j + 1)
       ELSE <<countdowns[j]>> \o Cleared(countdowns, k, j + 1)

\* the callback of a respawn countdown that is due: respawnTimer -= 1, and at
\* zero clearInterval(countdown) and spawnPlayer()
Countdown ==
  /\ Idle
  /\ \E k \in 1..Len(game.countdowns) :
       /\ game.countdowns[k] = now
       /\ IF game.respawnTimer - 1 <= 0
          THEN /\ \E spawn \in RespawnPoints :
                    aircraft' = createInitialState(SPAWN_POINTS[spawn].position,
                                                   SPAWN_POINTS[spawn].heading)
               /\ game' = spawnPlayer([game EXCEPT !.respawnTimer = @ - 1,
                                                   !.countdowns = Cleared(@, k, 1)])
          ELSE /\ game' = [game EXCEPT !.respawnTimer = @ - 1,
                                       !.countdowns[k] = @ + COUNTDOWN_PERIOD]
               /\ UNCHANGED aircraft
       /\ last' = [op |-> "countdown", wasAlive |-> game.isAlive,
                   spawned |-> game.respawnTimer - 1 <= 0, respawnTimer |-> game.respawnTimer]
  /\ UNCHANGED <<tick, now, drPlayers, track, missiles, bullets, players>>

\* A frame that leaves the remote players alone while the local player is
\* dead.
GameLoopDeadFrozen ==
  /\ Idle
  /\ game.mounted
  /\ ~game.isAlive
  /\ tick < MaxSessionFrames
  /\ now > game.lastTime
  /\ game' = [game EXCEPT !.lastTime = now, !.dt = Min(now - game.lastTime, MAX_FRAME_TIME)]
  /\ last' = [op |-> "gameLoop", alive |-> FALSE, fire |-> FALSE, aircraft |-> aircraft,
              dt |-> Min(now - game.lastTime, MAX_FRAME_TIME),
              before |-> missiles, bullets |-> bullets, drPlayers |-> drPlayers,
              refreshed |-> {}]
  /\ tick' = tick + 1
  /\ UNCHANGED <<aircraft, now, drPlayers, track, missiles, bullets, players>>

\* gameLoop when the local player is dead: deadReckoning.update and the
\* refresh of the remote aircraft, nothing else
GameLoopDead ==
  /\ Idle
  /\ game.mounted
  /\ ~game.isAlive
  /\ tick < MaxSessionFrames
  /\ now > game.lastTime
  /\ game' = [game EXCEPT !.lastTime = now, !.dt = Min(now - game.lastTime, MAX_FRAME_TIME)]
  /\ drPlayers' = deadReckoningUpdate(drPlayers, now, Min(now - game.lastTime, MAX_FRAME_TIME))
  /\ last' = [op |-> "gameLoop", alive |-> FALSE, fire |-> FALSE, aircraft |-> aircraft,
              dt |-> Min(now - game.lastTime, MAX_FRAME_TIME),
              before |-> missiles, bullets |-> bullets, drPlayers |-> drPlayers,
              refreshed |-> {players[k].id : k \in 1..Len(players)} \cap DOMAIN drPlayers]
  /\ tick' = tick + 1
  /\ UNCHANGED <<aircraft, now, track, missiles, bullets, players>>

NextSession ==
  \/ Elapse
  \/ PresenceJoin
  \/ PresenceLeave
  \/ NetPosition
  \/ NetFire
  \/ NetHit
  \/ Countdown
  \/ GameLoopAlive
  \/ GameLoopRest
  \/ GameLoopDead

SpecSession == InitSession /\ [][NextSession]_vars


(***************************************************************************)
(* C11, as stated: a call of fireMissile for an owner (from                *)
(* handleWeaponInput for the local player, from networking.onFire for a    *)
(* remote one) is refused, returning none and leaving the registry as it   *)
(* was, exactly when that owner's last successful launch was less than     *)
(* MISSILE.COOLDOWN ago, whatever other owners launched; a successful call *)
(* adds exactly one missile to the registry.                               *)
(***************************************************************************)
C11_CooldownPerOwner ==
  (last.op \in {"onFire", "gameLoop"} /\ last.fire) =>
    /\ last.missile = NoMissile <=>
         (last.launchedAt # 0 /\ now - last.launchedAt < MISSILE_COOLDOWN)
    /\ last.missile = NoMissile => last.after = last.before
    /\ last.missile # NoMissile =>
         /\ Len(last.after) = Len(last.before) + 1
         /\ last.after = Append(last.before, last.missile)
         /\ last.missile.ownerId = last.ownerId

\* a remote player's launch is refused because the local player launched less
\* than MISSILE.COOLDOWN before, the remote player never having launched
C11_RefusedByAnotherOwner ==
  /\ last.op = "onFire"
  /\ last.fire
  /\ last.missile = NoMissile
  /\ last.launchedAt = 0
  /\ now - game.launchedAt[PLAYER_ID] < MISSILE_COOLDOWN



(***************************************************************************)
(* SpecLock: findLockOnTarget applied to a firer and a registry of up to   *)
(* three players drawn from a pool: straight ahead, 10 degrees off the     *)
(* nose on either side (equal scores), 5 degrees off, 40 degrees off,      *)
(* ahead but out of range, ahead but dead, and a registry entry with the   *)
(* firer's own id.  The firer is at a spawn point, its orientation the     *)
(* identity or a quarter turn about the X axis.                            *)
(***************************************************************************)
MaxLockPlayers == 3

LOCK_ORIGIN == SPAWN_POINTS[1].position

LockOrientations == { <<0, 0, 0, ONE>>, <<707107, 0, 0, 707107>> }

\* a unit vector across the forward direction of either orientation
LOCK_ACROSS == <<ONE, 0, 0>>

\* the point at a distance (cm) from the firer, a given sine and cosine (ppm)
\* off its nose
OffNose(forward, distance, sin, cos) ==
  VAdd(LOCK_ORIGIN,
       VAdd(VScale(forward, MulDiv(distance, cos, ONE), ONE),
            VScale(LOCK_ACROSS, MulDiv(distance, sin, ONE), ONE)))

LockPool(forward) ==
  { Peer("a", OffNose(forward, 100000, 0, ONE), <<0, 0, 0, ONE>>, ZERO3, TRUE),
    Peer("b", OffNose(forward, 100000, 173648, 984808), <<0, 0, 0, ONE>>, ZERO3, TRUE),
    Peer("c", OffNose(forward, 100000, -173648, 984808), <<0, 0, 0, ONE>>, ZERO3, TRUE),
    Peer("d", OffNose(forward, 150000, 87156, 996195), <<0, 0, 0, ONE>>, ZERO3, TRUE),
    Peer("e", OffNose(forward, 100000, 642788, 766044), <<0, 0, 0, ONE>>, ZERO3, TRUE),
    Peer("f", OffNose(forward, 250000, 0, ONE), <<0, 0, 0, ONE>>, ZERO3, TRUE),
    Peer("g", OffNose(forward, 100000, 0, ONE), <<0, 0, 0, ONE>>, ZERO3, FALSE),
    Peer(PLAYER_ID, OffNose(forward, 50000, 0, ONE), <<0, 0, 0, ONE>>, ZERO3, TRUE) }

\* the registries of up to MaxLockPlayers distinct players of the pool, in
\* every insertion order
LockRegistries(pool) ==
  { registry \in UNION { [1..n -> pool] : n \in 0..MaxLockPlayers } :
      \A j, k \in 1..Len(registry) : j # k => registry[j] # registry[k] }

InitLock ==
  /\ \E orientation \in LockOrientations :
       /\ aircraft = [createInitialState(LOCK_ORIGIN, 0) EXCEPT !.orientation = orientation]
       /\ players \in LockRegistries(LockPool(getForwardDirection(orientation)))
  /\ last = NoCall
  /\ tick = 0
  /\ DRIdle
  /\ missiles = <<>>
  /\ bullets = <<>>
  /\ game = NoGame

\* handleWeaponInput: lockedTarget = findLockOnTarget(aircraftState, playerId, players)
FindLockOnTarget ==
  /\ last.op = "none"
  /\ last' = [op |-> "findLockOnTarget",
              lockedTarget |-> findLockOnTarget(aircraft, PLAYER_ID, players)]
  /\ UNCHANGED <<aircraft, tick, drVars, missiles, bullets, players, game>>

NextLock == FindLockOnTarget

SpecLock == InitLock /\ [][NextLock]_vars

(***************************************************************************)
(* C12: findLockOnTarget returns none when no player qualifies; otherwise  *)
(* it returns the id of a player that qualifies (alive, not the firer,     *)
(* within LOCK_RANGE, within LOCK_ANGLE of the forward vector the function *)
(* computes) whose score 1 - angle/LOCK_ANGLE is maximal among those that  *)
(* qualify, the first of them in the registry's order when scores tie.     *)
(***************************************************************************)
\* the direction from the firer to a player, against the firer's forward vector
NoseCosine(player) ==
  DotUnit(getForwardDirection(aircraft.orientation),
          Normalize(VSub(player.position, aircraft.position)))

LockCandidate(player) ==
  /\ player.isAlive
  /\ player.id # PLAYER_ID
  /\ ~WLT(WSq(LOCK_RANGE), MagSq(VSub(player.position, aircraft.position)))
  /\ NoseCosine(player) >= Cos(LOCK_ANGLE_RAD)

LockScore(player) == ONE - MulDiv(Acos(NoseCosine(player)), ONE, LOCK_ANGLE_RAD)

C12_LockIsFirstBest ==
  last.op = "findLockOnTarget" =>
    /\ last.lockedTarget = NoTarget <=> ~\E k \in 1..Len(players) : LockCandidate(players[k])
    /\ last.lockedTarget # NoTarget =>
         \E k \in 1..Len(players) :
           /\ players[k].id = last.lockedTarget
           /\ LockCandidate(players[k])
           /\ \A j \in 1..Len(players) :
                LockCandidate(players[j]) =>
                  /\ LockScore(players[j]) <= LockScore(players[k])
                  /\ LockScore(players[j]) = LockScore(players[k]) => k <= j

\* two players of equal score qualify behind one that does not, and the first
\* of the two is locked
C12_Witness ==
  /\ last.op = "findLockOnTarget"
  /\ Len(players) = 3
  /\ ~LockCandidate(players[1])
  /\ LockCandidate(players[2])
  /\ LockCandidate(players[3])
  /\ LockScore(players[2]) = LockScore(players[3])
  /\ LockScore(players[2]) < ONE
  /\ last.lockedTarget = players[2].id



(***************************************************************************)
(* C13, as stated: when a position message is handled for a peer that is   *)
(* not known (not in the registry: no join or presence event was processed *)
(* for it), afterwards a predictor exists for the peer, initialised from   *)
(* the sample, and getRenderState returns a pose for it.                   *)
(***************************************************************************)
C13_ImplicitJoin ==
  (last.op = "onPositionUpdate" /\ ~last.known) =>
    /\ last.id \in DOMAIN drPlayers
    /\ drPlayers[last.id].confirmedPosition = last.sample.position
    /\ drPlayers[last.id].confirmedVelocity = last.sample.velocity
    /\ getRenderState(drPlayers, last.id) # NoTarget

\* a position message of a peer that never joined has been handled: there is
\* no predictor for it, no pose, and it is not in the registry
C13_SampleDropped ==
  /\ last.op = "onPositionUpdate"
  /\ ~last.known
  /\ last.id \notin DOMAIN drPlayers
  /\ getRenderState(drPlayers, last.id) = NoTarget
  /\ IndexOf(players, last.id) = 0



(***************************************************************************)
(* The respawn countdown over its whole length: hits on the local player   *)
(* and the countdown's callbacks, half a second apart at the closest.      *)
(***************************************************************************)
MaxRespawnTime == 6000

RespawnIdleTimes == {500}

\* GAME.RESPAWN_TIME, ms
RESPAWN_TIME == 5000

InitRespawn ==
  /\ aircraft = createInitialState(SPAWN_POINTS[1].position, SPAWN_POINTS[1].heading)
  /\ last = NoCall
  /\ tick = 0
  /\ now = SESSION_START
  /\ drPlayers = <<>>
  /\ track = <<>>
  /\ missiles = <<>>
  /\ bullets = <<>>
  /\ game = [Spawned EXCEPT !.horizon = SESSION_START + MaxRespawnTime,
                            !.idle = RespawnIdleTimes]
  /\ players = SessionPlayers

NextRespawn ==
  \/ Elapse
  \/ NetHit
  \/ Countdown

SpecRespawn == InitRespawn /\ [][NextRespawn]_vars

(***************************************************************************)
(* C15.  A death starts one countdown, which respawns the player once,     *)
(* RESPAWN_TIME after the death; a hit message handled while the player is *)
(* dead starts no countdown, does not touch the running one and sends no   *)
(* death broadcast; the player is not respawned while alive.               *)
(***************************************************************************)
C15_OneCountdownPerDeath ==
  /\ Len(game.countdowns) <= 1
  /\ last.op = "onHit" /\ ~last.wasAlive =>
       /\ game.countdowns = last.before.countdowns
       /\ game.respawnTimer = last.before.respawnTimer
       /\ game.deathsBroadcast = last.before.deathsBroadcast
  /\ last.op = "countdown" /\ last.spawned =>
       /\ ~last.wasAlive
       /\ now = game.diedAt + RESPAWN_TIME

\* a countdown started by a hit on the dead player respawns the player who
\* is alive again
C15_RespawnedWhileAlive ==
  /\ last.op = "countdown"
  /\ last.spawned
  /\ last.wasAlive
  /\ game.deathsBroadcast = 2
  /\ game.diedAt + RESPAWN_TIME > now

(***************************************************************************)
(* Leaving the arena: handleExit, the component's onUnmounted and the end  *)
(* of the pending channel.unsubscribe() of networking.disconnect(), with   *)
(* the messages that arrive meanwhile.  The navigation that handleExit     *)
(* starts unmounts the component before anything else runs.                *)
(***************************************************************************)

\* networking.disconnect() as far as its await: the channel afterwards
disconnect(channel) == IF channel = "closed" THEN "closed" ELSE "unsubscribing"

\* handleExit: networking.disconnect(), gameStore.reset(), router.push('/')
HandleExit ==
  /\ Idle
  /\ game.mounted
  /\ game.channel = "subscribed"
  /\ game' = [game EXCEPT !.channel = disconnect(@), !.health = 100, !.ammo = 6,
                          !.deaths = 0, !.phase = "exit"]
  /\ last' = [op |-> "handleExit"]
  /\ UNCHANGED <<aircraft, tick, now, drPlayers, track, missiles, bullets, players>>

\* onUnmounted: cancelAnimationFrame, networking.disconnect(),
\* weapons.clear(), deadReckoning.clear()
Unmounted ==
  /\ game.phase \in {"idle", "exit"}
  /\ game.mounted
  /\ game' = [game EXCEPT !.channel = disconnect(@), !.mounted = FALSE, !.phase = "idle"]
  /\ players' = IF game.channel = "closed" THEN <<>> ELSE players
  /\ missiles' = <<>>
  /\ bullets' = <<>>
  /\ drPlayers' = <<>>
  /\ last' = [op |-> "onUnmounted"]
  /\ UNCHANGED <<aircraft, tick, now, track>>

\* channel.unsubscribe() is settled: the rest of networking.disconnect()
Unsubscribed ==
  /\ Idle
  /\ game.channel = "unsubscribing"
  /\ game' = [game EXCEPT !.channel = "closed"]
  /\ players' = <<>>
  /\ last' = [op |-> "disconnect"]
  /\ UNCHANGED <<aircraft, tick, now, drPlayers, track, missiles, bullets>>

NextExit ==
  \/ Elapse
  \/ PresenceJoin
  \/ NetPosition
  \/ NetFire
  \/ HandleExit
  \/ Unmounted
  \/ Unsubscribed

SpecExit == InitSession /\ [][NextExit]_vars

(***************************************************************************)
(* C16.  A network message handled after disconnect was invoked finds the  *)
(* player registry empty and leaves empty every registry (players,         *)
(* missiles, bullets, predictors) that was empty.                          *)
(***************************************************************************)
C16_NoMessageAfterDisconnect ==
  [][game.channel # "subscribed" /\ game'.messages = game.messages + 1 =>
       /\ players = <<>>
       /\ players' = <<>>
       /\ missiles = <<>> => missiles' = <<>>
       /\ bullets = <<>> => bullets' = <<>>
       /\ drPlayers = <<>> => drPlayers' = <<>>]_vars

\* after the component is unmounted and its registries are cleared, with
\* the unsubscribe pending, messages of a peer have put a missile and a
\* predictor back
C16_RepopulatedAfterClear ==
  /\ ~game.mounted
  /\ game.channel = "unsubscribing"
  /\ players # <<>>
  /\ missiles # <<>>
  /\ drPlayers # <<>>

(***************************************************************************)
(* C14.  Every frame, whether the local player is alive or dead, runs the  *)
(* dead-reckoning update on every predictor and refreshes every player of  *)
(* the registry that has a predictor; a frame while the local player is    *)
(* dead leaves the local aircraft, the missiles, the bullets and the       *)
(* weapon bookkeeping as they were, and a frame while the player is alive  *)
(* integrates the aircraft and advances the projectiles.                   *)
(***************************************************************************)
C14_RemoteAlwaysLocalWhenAlive ==
  last.op = "gameLoop" =>
    /\ DOMAIN drPlayers = DOMAIN last.drPlayers
    /\ \A id \in DOMAIN last.drPlayers :
         drPlayers[id] = updatePlayer(last.drPlayers[id], now, last.dt)
    /\ last.refreshed = {id \in DOMAIN drPlayers : IndexOf(players, id) # 0}
    /\ ~last.alive =>
         /\ ~game.isAlive
         /\ aircraft = last.aircraft
         /\ missiles = last.before
         /\ bullets = last.bullets
    /\ last.alive =>
         /\ aircraft.position # last.aircraft.position
         /\ missiles = checkMissileCollisions(updateMissiles(last.after, players, now, last.dt),
                                              players).registry
         /\ bullets = checkBulletCollisions(updateBullets(last.bullets, now, last.dt),
                                            players).registry

\* a frame while the local player is dead moved a tracked player's aircraft
\* and left a missile in flight where it was
C14_DeadFrameRefreshes ==
  /\ last.op = "gameLoop"
  /\ ~last.alive
  /\ missiles # <<>>
  /\ \E id \in last.refreshed :
       drPlayers[id].renderPosition # last.drPlayers[id].renderPosition


\* the registry holds nothing older than lifetime at the clock
NoneOlder(registry, clock, lifetime) ==
  \A k \in 1..Len(registry) : clock - registry[k].createdAt <= lifetime

\* every entry of the registry that was in the registry before has moved
AllAdvanced(registry, before) ==
  \A k \in 1..Len(registry), j \in 1..Len(before) :
    registry[k].id = before[j].id => registry[k].position # before[j].position

\* every entry of the registry that was not in the registry before was
\* created at the clock
OnlyNew(registry, before, clock) ==
  \A k \in 1..Len(registry) :
    (\A j \in 1..Len(before) : before[j].id # registry[k].id) => registry[k].createdAt = clock

(***************************************************************************)
(* C20.  At the end of every tick, alive or dead, the registries hold no   *)
(* missile older than MISSILE.LIFETIME and no bullet older than            *)
(* GUN.RANGE / GUN.SPEED, and every projectile that was in flight has been *)
(* advanced; a projectile enters a registry only when it is created.       *)
(***************************************************************************)
C20_NoProjectileOutlivesLifetime ==
  /\ [](last.op = "gameLoop" =>
          /\ NoneOlder(missiles, now, MISSILE_LIFETIME)
          /\ NoneOlder(bullets, now, BulletLifetime)
          /\ AllAdvanced(missiles, last.before)
          /\ AllAdvanced(bullets, last.bullets))
  /\ [][OnlyNew(missiles', missiles, now') /\ OnlyNew(bullets', bullets, now')]_vars

\* the end of a tick while the local player is dead, with a missile past
\* its lifetime and a bullet past its range still in the registries
C20_ExpiredWhileDead ==
  /\ last.op = "gameLoop"
  /\ ~last.alive
  /\ \E k \in 1..Len(missiles) : now - missiles[k].createdAt > MISSILE_LIFETIME
  /\ \E k \in 1..Len(bullets) : now - bullets[k].createdAt > BulletLifetime


\* the missile has nothing to home on: no target id, a target id that is
\* not in the registry, or a target that is dead
Unguided(missile) ==
  \/ missile.targetId = NoTarget
  \/ \A k \in 1..Len(players) : players[k].id # missile.targetId
  \/ \E k \in 1..Len(players) : players[k].id = missile.targetId /\ ~players[k].isAlive

\* the missile flew straight on for dt and is in the registry
FlewOn(missile, registry, dt) ==
  \E k \in 1..Len(registry) :
    /\ registry[k].id = missile.id
    /\ registry[k].velocity = missile.velocity
    /\ registry[k].position = VAdd(missile.position, VScale(missile.velocity, dt, 1000))
    /\ registry[k].targetId = missile.targetId

(***************************************************************************)
(* C21.  In updateMissiles a missile within its lifetime that has no       *)
(* target, or whose target id is not in the player registry, or whose      *)
(* target is dead, keeps its velocity, advances by velocity * dt and stays *)
(* in the registry.                                                        *)
(***************************************************************************)
C21_UnguidedFliesOn ==
  last.op = "updateMissiles" =>
    \A j \in 1..Len(last.before) :
      (Unguided(last.before[j]) /\ now - last.before[j].createdAt <= MISSILE_LIFETIME)
        => FlewOn(last.before[j], missiles, last.dt)

\* an update of a registry with a missile whose target has died while the
\* missile was flying across the line of sight, and a missile whose target
\* is not in the registry
C21_Witness ==
  /\ last.op = "updateMissiles"
  /\ \E j \in 1..Len(last.before), k \in 1..Len(players) :
       /\ players[k].id = last.before[j].targetId
       /\ ~players[k].isAlive
       /\ Guided(last.before[j], players[k], last.dt) # last.before[j].velocity
       /\ FlewOn(last.before[j], missiles, last.dt)
  /\ \E j \in 1..Len(last.before) :
       /\ last.before[j].targetId # NoTarget
       /\ IndexOf(players, last.before[j].targetId) = 0
       /\ FlewOn(last.before[j], missiles, last.dt)


(***************************************************************************)
(* SpecDecay: the correction of one tracked player, from any level of      *)
(* alpha a blend can have decayed to.  Frame times are fractions of a      *)
(* millisecond apart in the program, so alpha can stop at any level: 1,    *)
(* three quarters, just above and at the epsilon of update(), half of it,  *)
(* and 0.                                                                  *)
(***************************************************************************)
AlphaLevels == {0, ALPHA_EPSILON \div 2, ALPHA_EPSILON, ALPHA_EPSILON + 1, 3 * (ONE \div 4), ONE}

\* the predictor of p1 after two samples, the second blended, its correction
\* decayed to level
Decaying(level) ==
  [initPlayer(DR_ORIGIN, <<0, 0, 0, ONE>>, <<20000, 0, 0>>, 1000)
     EXCEPT !.correctionOffset = <<300, 0, 0>>, !.correctionAlpha = level]

InitDecay ==
  /\ aircraft = createInitialState(SPAWN_POINTS[1].position, SPAWN_POINTS[1].heading)
  /\ last = NoCall
  /\ tick = 0
  /\ now = 1000
  /\ \E level \in AlphaLevels :
       /\ drPlayers = [id \in {"p1"} |-> Decaying(level)]
       /\ track = [id \in {"p1"} |->
                     [samples |-> 2,
                      sample |-> [position |-> DR_ORIGIN, orientation |-> <<0, 0, 0, ONE>>,
                                  velocity |-> <<20000, 0, 0>>, timestamp |-> 1000],
                      at |-> 1000, error |-> 300,
                      updated |-> MulDiv(ONE - level, CORRECTION_DURATION, ONE)]]
  /\ WeaponsIdle

\* a further position message of p1 is handed to receiveUpdate
DecayReceive ==
  /\ Received("p1") < 2 + MaxSamples
  /\ \E template \in Samples :
       \E sample \in {Stamped(template, now)} :
         /\ drPlayers' = receiveUpdate(drPlayers, "p1", sample, now)
         /\ track' = Put(track, "p1",
                         [samples |-> Received("p1") + 1, sample |-> sample, at |-> now,
                          error |-> PredictionError(drPlayers["p1"], sample),
                          updated |-> 0])
         /\ last' = [op |-> "receiveUpdate", id |-> "p1", before |-> drPlayers]
  /\ UNCHANGED <<aircraft, tick, now, weaponVars>>

NextDecay == DecayReceive \/ DRFrame

SpecDecay == InitDecay /\ [][NextDecay]_vars

\* what receiveUpdate and update() do to alpha, apart from the decay
AlphaKept ==
  /\ \A id \in DOMAIN drPlayers :
       /\ drPlayers[id].correctionAlpha >= 0
       /\ drPlayers[id].correctionAlpha <= ONE
  /\ last.op = "receiveUpdate" =>
       /\ last.id \notin DOMAIN last.before => drPlayers[last.id].correctionAlpha = 0
       /\ (last.id \in DOMAIN last.before /\ track[last.id].error > SNAP_THRESHOLD)
            => drPlayers[last.id].correctionAlpha = 0
       /\ (last.id \in DOMAIN last.before /\ track[last.id].error <= SNAP_THRESHOLD)
            => drPlayers[last.id].correctionAlpha = ONE
  /\ last.op = "deadReckoningUpdate" =>
       \A id \in DOMAIN drPlayers :
         drPlayers[id].correctionAlpha <= last.before[id].correctionAlpha

AsternOf(state, target) ==
  [state EXCEPT !.position =
     VSub(VSub(target, VScale(state.velocity, MAX_FRAME_TIME, 1000)),
          VScale(getForwardDirection(state.orientation),
                 MISSILE_SPAWN_OFFSET + MulDiv(MISSILE_SPEED, MAX_FRAME_TIME, 1000), ONE))]

TickStates ==
  { createInitialState(SPAWN_POINTS[1].position, SPAWN_POINTS[1].heading),
    Flying(<<4998300, 0, 80400>>, 90),
    Vertical(Flying(<<0, 0, -189900>>, 0), -CRUISE_SPEED),
    AsternOf(createInitialState(SPAWN_POINTS[1].position, SPAWN_POINTS[1].heading),
             SessionPlayers[1].position) }

\* what the session begins with: nothing in flight, or the missile the local
\* player launched half a second ago, the key released since
TickScenes ==
  { [missiles |-> <<>>, game |-> Spawned],
    [missiles |-> << Launched("g1", PLAYER_ID,
                              createInitialState(SPAWN_POINTS[1].position,
                                                 SPAWN_POINTS[1].heading),
                              getForwardDirection(
                                createInitialState(SPAWN_POINTS[1].position,
                                                   SPAWN_POINTS[1].heading).orientation),
                              NoTarget, SESSION_START - 500) >>,
     game |-> [Spawned EXCEPT !.ammo = 5, !.shots = 1, !.generated = 1,
                              !.lastMissileTime = SESSION_START - 500,
                              !.launchedAt[PLAYER_ID] = SESSION_START - 500]] }

InitTick ==
  /\ aircraft \in TickStates
  /\ last = NoCall
  /\ tick = 0
  /\ now = SESSION_START
  /\ drPlayers = <<>>
  /\ track = <<>>
  /\ bullets = <<>>
  /\ \E scene \in TickScenes :
       /\ missiles = scene.missiles
       /\ game = scene.game
  /\ players = SessionPlayers

NextTick ==
  \/ Elapse
  \/ NetFire
  \/ GameLoopAlive
  \/ GameLoopRest

SpecTick == InitTick /\ [][NextTick]_vars

\* the missile spawned MISSILE_SPAWN_OFFSET ahead of state at the clock
SpawnedFrom(missile, state, clock) ==
  /\ missile.position = VAdd(state.position,
                             VScale(getForwardDirection(state.orientation),
                                    MISSILE_SPAWN_OFFSET, ONE))
  /\ missile.createdAt = clock

\* the missile is in the registry, advanced by its velocity over dt
InFlight(missile, registry, dt) ==
  \E k \in 1..Len(registry) :
    /\ registry[k].id = missile.id
    /\ registry[k].position = VAdd(missile.position, VScale(registry[k].velocity, dt, 1000))

\* the missile is not in the registry and a hit was reported for it
HitReported(missile, registry, hits) ==
  /\ \A k \in 1..Len(registry) : registry[k].id # missile.id
  /\ \E h \in 1..Len(hits) : hits[h].projectileId = missile.id

(***************************************************************************)
(* C23.  In a frame while the local player is alive the aircraft is first  *)
(* integrated from the state the frame began with, then constrained to the *)
(* arena and the altitude limits; a missile fired in the frame is spawned  *)
(* from the integrated and constrained state, is advanced by that frame's  *)
(* projectile update and is seen by that frame's collision check (it is    *)
(* either still in the registry, advanced, or was reported as a hit and    *)
(* removed); the position handed to the broadcast is the frame's final one.*)
(***************************************************************************)
C23_FrameOrder ==
  (last.op = "gameLoop" /\ last.alive) =>
    /\ last.integrated.position =
         VAdd(last.aircraft.position, VScale(last.integrated.velocity, last.dt, 1000))
    /\ aircraft = enforceAltitudeLimits(
                    enforceArenaBounds(last.integrated,
                                       DistanceFromCenter(last.integrated.position)),
                    Altitude(enforceArenaBounds(last.integrated,
                                       DistanceFromCenter(last.integrated.position)).position))
    /\ last.missile # NoMissile =>
         /\ SpawnedFrom(last.missile, aircraft, now)
         /\ \/ InFlight(last.missile, missiles, last.dt)
            \/ HitReported(last.missile, missiles, last.hits)
    /\ missiles = checkMissileCollisions(updateMissiles(last.after, players, now, last.dt),
                                         players).registry
    /\ last.broadcast = aircraft.position

\* a frame in which the integration took the aircraft out of the arena, the
\* enforcement teleported it back and the missile was fired from there
C23_FiredAfterTeleport ==
  /\ last.op = "gameLoop"
  /\ last.alive
  /\ last.missile # NoMissile
  /\ DistanceFromCenter(last.integrated.position) > ARENA_RADIUS
  /\ aircraft.position # last.integrated.position
  /\ SpawnedFrom(last.missile, aircraft, now)
  /\ InFlight(last.missile, missiles, last.dt)


(***************************************************************************)
(* SpecInput: useInput's missile key.  game holds keys.space and           *)
(* missilePressed, and counts: presses (keydown events that found the key  *)
(* up), fired (calls of checkMissileFire that returned true) and trues     *)
(* (those since the last press began).  tick counts the events and calls.  *)
(***************************************************************************)
MaxInputEvents == 8

\* A check that fires whenever the key is down.
checkMissileFireHeld(space, missilePressed) ==
  [fire |-> space, missilePressed |-> space]

\* checkMissileFire(): what it returns and what it leaves in missilePressed
checkMissileFire(space, missilePressed) ==
  IF space /\ ~missilePressed THEN [fire |-> TRUE, missilePressed |-> TRUE]
  ELSE IF ~space THEN [fire |-> FALSE, missilePressed |-> FALSE]
  ELSE [fire |-> FALSE, missilePressed |-> missilePressed]

InitInput ==
  /\ aircraft = createInitialState(SPAWN_POINTS[1].position, SPAWN_POINTS[1].heading)
  /\ last = NoCall
  /\ tick = 0
  /\ now = 0
  /\ drPlayers = <<>>
  /\ track = <<>>
  /\ missiles = <<>>
  /\ bullets = <<>>
  /\ players = <<>>
  /\ game = [phase |-> "input", space |-> FALSE, missilePressed |-> FALSE,
             presses |-> 0, fired |-> 0, trues |-> 0]

\* onKeyDown with e.key === ' ' (the key goes down, or repeats while held)
KeyDown ==
  /\ game.phase = "input"
  /\ tick < MaxInputEvents
  /\ game' = [game EXCEPT !.space = TRUE,
                          !.presses = IF game.space THEN @ ELSE @ + 1,
                          !.trues = IF game.space THEN @ ELSE 0]
  /\ last' = [op |-> "onKeyDown", repeat |-> game.space]
  /\ tick' = tick + 1
  /\ UNCHANGED <<aircraft, now, drPlayers, track, missiles, bullets, players>>

\* onKeyUp with e.key === ' '
KeyUp ==
  /\ game.phase = "input"
  /\ tick < MaxInputEvents
  /\ game.space
  /\ game' = [game EXCEPT !.space = FALSE]
  /\ last' = [op |-> "onKeyUp"]
  /\ tick' = tick + 1
  /\ UNCHANGED <<aircraft, now, drPlayers, track, missiles, bullets, players>>

\* handleWeaponInput calls input.checkMissileFire()
CheckMissileFire ==
  /\ game.phase = "input"
  /\ tick < MaxInputEvents
  /\ \E result \in {checkMissileFire(game.space, game.missilePressed)} :
       /\ game' = [game EXCEPT !.missilePressed = result.missilePressed,
                               !.fired = IF result.fire THEN @ + 1 ELSE @,
                               !.trues = IF result.fire THEN @ + 1 ELSE @]
       /\ last' = [op |-> "checkMissileFire", fire |-> result.fire, space |-> game.space,
                   presses |-> game.presses, trues |-> game.trues]
  /\ tick' = tick + 1
  /\ UNCHANGED <<aircraft, now, drPlayers, track, missiles, bullets, players>>

NextInput == KeyDown \/ KeyUp \/ CheckMissileFire

SpecInput == InitInput /\ [][NextInput]_vars

(***************************************************************************)
(* C24.  checkMissileFire returns true at most once per press of the       *)
(* missile key: never twice since the key last went down, never while the  *)
(* key is up, and so never more often than the key was pressed.            *)
(***************************************************************************)
C24_SingleShotPerPress ==
  /\ game.trues <= 1
  /\ game.fired <= game.presses
  /\ (last.op = "checkMissileFire" /\ last.fire) => (last.space /\ last.trues = 0)

\* the key is held over three calls, released and pressed again: the first
\* call of each press returned true, the calls in between false
C24_Witness ==
  /\ last.op = "checkMissileFire"
  /\ last.fire
  /\ game.presses = 2
  /\ game.fired = 2
  /\ tick >= 6


(***************************************************************************)
(* C25.  A hit that takes the health of the living local player to 0       *)
(* increases the store's deaths counter by exactly 1.                      *)
(***************************************************************************)
C25_OneDeathCounted ==
  (last.op = "onHit" /\ last.wasAlive /\ last.died) =>
    game.deaths = last.before.deaths + 1

\* the first death of the session, counted twice
C25_DeathCountedTwice ==
  /\ last.op = "onHit"
  /\ last.wasAlive
  /\ last.died
  /\ game.deathsBroadcast = 1
  /\ game.deaths = 2


(***************************************************************************)
(* C26.  The ammo count goes down by one in the frames in which a local    *)
(* missile is spawned and in no other: ammo plus the local missiles        *)
(* launched since the last spawn is always 6.                              *)
(***************************************************************************)
C26_AmmoCountsLaunches ==
  /\ game.ammo + game.shots = 6
  /\ (last.op = "gameLoop" /\ last.alive) =>
       game.ammo = last.ammo - (IF last.missile = NoMissile THEN 0 ELSE 1)

\* a frame in which the missile key was pressed within the cooldown of the
\* local player's own last launch: no missile, one round less
C26_RoundLostToCooldown ==
  /\ last.op = "gameLoop"
  /\ last.alive
  /\ last.fire
  /\ last.missile = NoMissile
  /\ last.launchedAt # 0
  /\ now - last.launchedAt < MISSILE_COOLDOWN
  /\ game.ammo = last.ammo - 1


(***************************************************************************)
(* C27.  The confirmed timestamp of a tracked player never decreases: a    *)
(* sample whose timestamp is older than the confirmed one leaves the       *)
(* confirmed position, velocity and timestamp as they were.                *)
(***************************************************************************)
C27_ConfirmedTimestampMonotone ==
  (last.op = "receiveUpdate" /\ last.id \in DOMAIN last.before) =>
    /\ drPlayers[last.id].confirmedTimestamp >= last.before[last.id].confirmedTimestamp
    /\ track[last.id].sample.timestamp < last.before[last.id].confirmedTimestamp =>
         /\ drPlayers[last.id].confirmedPosition = last.before[last.id].confirmedPosition
         /\ drPlayers[last.id].confirmedVelocity = last.before[last.id].confirmedVelocity

\* a sample stamped 40 ms before the confirmed one has replaced it
C27_OlderSampleConfirmed ==
  /\ last.op = "receiveUpdate"
  /\ last.id \in DOMAIN last.before
  /\ track[last.id].sample.timestamp < last.before[last.id].confirmedTimestamp
  /\ drPlayers[last.id].confirmedTimestamp = track[last.id].sample.timestamp
  /\ drPlayers[last.id].confirmedPosition = track[last.id].sample.position
  /\ drPlayers[last.id].confirmedPosition # last.before[last.id].confirmedPosition


(***************************************************************************)
(* SpecSkew: dead reckoning of a peer whose clock is ahead of the local    *)
(* one.  msg.ts is the sender's Date.now(), the predictor compares it with *)
(* the receiver's.                                                         *)
(***************************************************************************)
\* samples stamped by a clock in step with the local one, 40 ms behind and
\* 700 ms ahead
SkewSamples ==
  { [position |-> DR_ORIGIN, orientation |-> <<0, 0, 0, ONE>>,
     velocity |-> <<20000, 0, 0>>, lag |-> 0],
    [position |-> VAdd(DR_ORIGIN, <<1000, 300, 0>>), orientation |-> <<0, 0, 0, ONE>>,
     velocity |-> <<20000, 0, 0>>, lag |-> 40],
    [position |-> VAdd(DR_ORIGIN, <<0, 10000, 0>>), orientation |-> <<0, 0, 0, ONE>>,
     velocity |-> <<20000, 0, 0>>, lag |-> -700] }

\* a position message of p1 is handed to receiveUpdate
SkewReceive ==
  /\ Received("p1") < MaxSamples
  /\ \E template \in SkewSamples :
       \E sample \in {Stamped(template, now)} :
         /\ drPlayers' = receiveUpdate(drPlayers, "p1", sample, now)
         /\ track' = Put(track, "p1",
                         [samples |-> Received("p1") + 1, sample |-> sample, at |-> now,
                          error |-> IF "p1" \in DOMAIN drPlayers
                                    THEN PredictionError(drPlayers["p1"], sample) ELSE -1,
                          updated |-> 0])
         /\ last' = [op |-> "receiveUpdate", id |-> "p1", before |-> drPlayers]
  /\ UNCHANGED <<aircraft, tick, now, weaponVars>>

NextSkew == SkewReceive \/ DRFrame

SpecSkew == InitDR /\ [][NextSkew]_vars

(***************************************************************************)
(* C28.  In every update() the time a player is extrapolated over is       *)
(* within [0, MAX_EXTRAPOLATION]: with no correction left, the render      *)
(* position is the confirmed position advanced by the confirmed velocity   *)
(* over the time since the confirmed timestamp, taken as 0 when the        *)
(* timestamp is later than the local clock and as MAX_EXTRAPOLATION when   *)
(* it is more than that ago.                                               *)
(***************************************************************************)
C28_ExtrapolationWindow ==
  last.op = "deadReckoningUpdate" =>
    \A id \in DOMAIN drPlayers :
      /\ ClampedTime(now - drPlayers[id].confirmedTimestamp) >= 0
      /\ ClampedTime(now - drPlayers[id].confirmedTimestamp) <= MAX_EXTRAPOLATION
      /\ drPlayers[id].correctionAlpha = 0 =>
           drPlayers[id].renderPosition =
             extrapolatePosition(drPlayers[id].confirmedPosition,
                                 drPlayers[id].confirmedVelocity,
                                 Max(0, Min(now - drPlayers[id].confirmedTimestamp,
                                            MAX_EXTRAPOLATION)))

\* an update() that rendered a moving player, confirmed by a sample stamped
\* later than the local clock, behind its confirmed position
C28_RenderedBehind ==
  /\ last.op = "deadReckoningUpdate"
  /\ \E id \in DOMAIN drPlayers :
       /\ drPlayers[id].confirmedTimestamp > now
       /\ drPlayers[id].correctionAlpha = 0
       /\ drPlayers[id].confirmedVelocity # ZERO3
       /\ drPlayers[id].renderPosition =
            extrapolatePosition(drPlayers[id].confirmedPosition,
                                drPlayers[id].confirmedVelocity,
                                now - drPlayers[id].confirmedTimestamp)
       /\ drPlayers[id].renderPosition # drPlayers[id].confirmedPosition


\* the cosine (ppm) of the angle at the arena centre between two positions
CosineAtCenter(a, b) ==
  DotUnit(Normalize(VSub(a, ARENA_CENTER)), Normalize(VSub(b, ARENA_CENTER)))

(***************************************************************************)
(* C29.  The hard boundary's teleport puts the aircraft on the ray from    *)
(* the arena centre through the position it left (to within 100 ppm of     *)
(* direction), so it moves the aircraft by distance - 0.95 * radius (to    *)
(* within 1 m) and never to the other side of the centre.                  *)
(***************************************************************************)
C29_TeleportKeepsSide ==
  (last.op = "enforceArenaBounds" /\ DistanceFromCenter(last.state.position) > ARENA_RADIUS) =>
    /\ CosineAtCenter(aircraft.position, last.state.position) >= ONE - 100
    /\ Abs(Magnitude(VSub(aircraft.position, last.state.position))
             - (DistanceFromCenter(last.state.position)
                  - MulDiv(ARENA_RADIUS, TELEPORT_FRACTION, ONE))) <= 100

\* an aircraft that left the arena was put on the far side of the centre,
\* more than 1.9 radii from where it left
C29_TeleportedAcross ==
  /\ last.op = "enforceArenaBounds"
  /\ DistanceFromCenter(last.state.position) > ARENA_RADIUS
  /\ CosineAtCenter(aircraft.position, last.state.position) <= 100 - ONE
  /\ Magnitude(VSub(aircraft.position, last.state.position))
       > MulDiv(ARENA_RADIUS, 1900000, ONE)


(***************************************************************************)
(* Presence: the sync and join events of the channel for one peer, in any  *)
(* order.                                                                  *)
(***************************************************************************)
\* the orders Object.entries(state) can list the presence keys in
PresenceOrders == {<<"p1", "p2">>, <<"p2", "p1">>}

\* the sync handler's loop: onPlayerJoin for each present key the registry
\* does not have
RECURSIVE Synced(_, _, _, _)
Synced(registry, keys, present, spawn) ==
  IF keys = <<>> THEN registry
  ELSE Synced(IF Head(keys) \in present /\ IndexOf(registry, Head(keys)) = 0
              THEN SetPlayer(registry, Peer(Head(keys), SPAWN_POINTS[spawn[Head(keys)]].position,
                                            <<0, 0, 0, 0>>, ZERO3, TRUE))
              ELSE registry,
              Tail(keys), present, spawn)

\* presence sync
PresenceSync ==
  /\ Delivering
  /\ \E present \in SUBSET SessionPeers, keys \in PresenceOrders,
        spawn \in [SessionPeers -> JoinSpawns] :
       /\ players' = Synced(players, keys, present, spawn)
       /\ last' = [op |-> "sync", present |-> present, before |-> players]
  /\ game' = [game EXCEPT !.messages = @ + 1]
  /\ UNCHANGED <<aircraft, tick, now, drPlayers, track, missiles, bullets>>

NextPresence ==
  Elapse \/ PresenceSync \/ PresenceJoin \/ PresenceLeave \/ NetPosition

SpecPresence == InitSession /\ [][NextPresence]_vars

\* the entries the registry has for a peer
EntriesOf(registry, id) == {k \in 1..Len(registry) : registry[k].id = id}

(***************************************************************************)
(* C30.  A join event for a peer that is already in the registry leaves    *)
(* the registry with exactly one entry for the peer, and the entry's       *)
(* isAlive and position are what they were, whether the peer was added by  *)
(* a sync or by an earlier join.                                           *)
(***************************************************************************)
C30_JoinIdempotent ==
  (last.op = "onPlayerJoin" /\ last.known) =>
    /\ Cardinality(EntriesOf(players, last.id)) = 1
    /\ \A k \in EntriesOf(players, last.id) :
         /\ players[k].isAlive = last.was.isAlive
         /\ players[k].position = last.was.position

\* a join event for a peer that a sync had added has moved the peer's one
\* entry to another position
C30_JoinReplacedEntry ==
  /\ last.op = "onPlayerJoin"
  /\ last.known
  /\ last.id = "p2"
  /\ Cardinality(EntriesOf(players, last.id)) = 1
  /\ \E k \in EntriesOf(players, last.id) : players[k].position # last.was.position

\* a sync leaves the entries of the registry as they were
C30_SyncKeepsEntries ==
  last.op = "sync" =>
    \A k \in 1..Len(last.before) :
      /\ k <= Len(players)
      /\ players[k] = last.before[k]

=============================================================================
